---- MODULE Spec2Model ----
(***************************************************************************)
(* Stream-resolution and proxying subsystem of the Music_Downloader        *)
(* server.  Two builds of the server are modelled:                          *)
(*   "map"  src/unnamed/part_000: Map caches with timestamps, two pending   *)
(*          maps holding promises, ytdl-core as extraction collaborator;    *)
(*   "lru"  src/.history/server/index_20260113173543.js: LRU caches, one    *)
(*          pendingRequests map and an EventEmitter for the waiters,        *)
(*          yt-dlp as extraction collaborator.                              *)
(* Node runs the handlers on one thread: a handler runs from one await to   *)
(* the next without interleaving, and the continuations of a settled        *)
(* promise (microtasks) all run before the next I/O event or timer.  One    *)
(* action of the model is therefore one such run-to-completion step.        *)
(*                                                                         *)
(* The clock `now` counts periods of 3 hours (the stream-URL TTL is one     *)
(* period, the metadata TTL eight).                                         *)
(***************************************************************************)
EXTENDS Integers, Sequences, FiniteSets, TLC

\* ------------------------------------------------------------------ bounds
MaxReqs == 2            \* requests in progress at the same time
MaxTime == 2            \* last clock value of the server specifications
StreamCacheMax == 1     \* entries the LRU stream-URL cache holds (max: 1000)
MaxChunks == 2          \* "data" events of one pipe of a yt-dlp child
MaxTotal == 6           \* largest small contentLength of a format, in bytes
MaxQueue == 3           \* songs in the playlist of the player
MaxCalls == 1           \* pending continuations of playNowFromResult per video
MaxPrefetch == 2        \* prefetches of the player in flight at the same time
MaxAudios == 4          \* Audio elements the player creates
MaxVideos == 12         \* videos in a result of the search collaborator
MaxFormats == 3         \* formats in a list handed to a format selection
InfoCacheMax == 2       \* entries the LRU metadata cache holds (max: 2000)

\* ------------------------------------------------------- program constants
STREAM_CACHE_TTL_MS == 1     \* 3 h  = 1 period
INFO_CACHE_TTL_MS == 8       \* 24 h = 8 periods

Ids == {"idA", "idB"}        \* valid 11-character identifiers
Reqs == 1..MaxReqs
Null == "null"               \* JS null / undefined
Urls == {"u1", "u2"}

VARIABLES
  variant,                \* which build is running: "map" or "lru"
  now,                    \* Date.now()
  streamUrlCache,         \* Map videoId -> {url, timestamp}
  videoInfoCache,         \* Map videoId -> {info, timestamp}
  pendingStreamRequests,  \* Map videoId -> promise (named by the call that made it)
  pendingInfoRequests,    \* Map videoId -> promise
  lruStreamUrlCache,      \* LRUCache videoId -> url          (build "lru")
  lruVideoInfoCache,      \* LRUCache videoId -> info         (build "lru")
  pendingRequests,        \* Map key -> true                  (build "lru")
  req,                    \* the requests in progress: position of each handler
  sent,                   \* what the last step delivered: call outcomes, responses
  arg,                    \* input of the function under test (function specifications)
  ret                     \* its result

mapVars == <<streamUrlCache, videoInfoCache, pendingStreamRequests, pendingInfoRequests>>
lruVars == <<lruStreamUrlCache, lruVideoInfoCache, pendingRequests>>
pureVars == <<arg, ret>>
vars == <<variant, now, mapVars, lruVars, req, sent, pureVars>>

\* ------------------------------------------------------------------ values
Truthy(x) == x \notin {Null, ""}

NoInfo == [videoId |-> "", title |-> "", channelName |-> "", thumbnail |-> "",
           duration |-> 0]
NoOutcome == [set |-> FALSE, ok |-> FALSE, url |-> "", info |-> NoInfo, err |-> ""]
OkUrl(u) == [set |-> TRUE, ok |-> TRUE, url |-> u, info |-> NoInfo, err |-> ""]
OkInfo(i) == [set |-> TRUE, ok |-> TRUE, url |-> "", info |-> i, err |-> ""]
Err(m) == [set |-> TRUE, ok |-> FALSE, url |-> "", info |-> NoInfo, err |-> m]

\* Error messages the extraction collaborator rejects with, and what
\* String.prototype.includes answers on each message of the model.
ExtractionErrors == {"Video unavailable", "Status code: 429"}
Includes(msg, sub) ==
  \/ sub = ""
  \/ \E i \in 1..(Len(msg) - Len(sub) + 1) : SubSeq(msg, i, i + Len(sub) - 1) = sub

\* Header names of the model: the four the relay copies, the one it sets itself
\* and one more that upstream may send.  "" stands for an absent header.
HeaderNames == {"content-type", "content-length", "content-range",
                "accept-ranges", "cache-control", "etag"}
NoHeaders == [h \in HeaderNames |-> ""]
Hdrs(ct, cl, cr, ar, cc, etag) ==
  [h \in HeaderNames |->
     CASE h = "content-type" -> ct [] h = "content-length" -> cl
       [] h = "content-range" -> cr [] h = "accept-ranges" -> ar
       [] h = "cache-control" -> cc [] h = "etag" -> etag]

\* A request slot.  pc is the await the handler is suspended at ("idle": the
\* slot is free); awaits names the promise a caller of fetchStreamUrl or
\* fetchVideoInfo waits for, by the slot of the call that created it;
\* extracting: this call's extraction is in flight; upstream: the upstream
\* fetch of the relay ("none", "open"); listens: the events of requestEvents
\* this caller has listeners on, by their common prefix (build "lru");
\* optimistic: the handler has set its headers ahead of the resolution (build
\* "lru", cache miss).
IdleReq == [kind |-> "none", videoId |-> "", pc |-> "idle", awaits |-> 0,
            listens |-> "", extracting |-> FALSE, closed |-> FALSE, abortListener |-> FALSE,
            upstream |-> "none", headersSent |-> FALSE, optimistic |-> FALSE]

\* What a step delivers to request r: the outcome of its fetch call (result)
\* and what the handler writes to the response (status 0: nothing written);
\* afterHeaders: res.headersSent at the moment of the write.
Event(r, rq, result, status, body, headers) ==
  [r |-> r, kind |-> rq.kind, videoId |-> rq.videoId, promise |-> rq.awaits,
   result |-> result, status |-> status, body |-> body, headers |-> headers,
   afterHeaders |-> rq.headersSent]

Remove(f, k) == [x \in DOMAIN f \ {k} |-> f[x]]
Put(f, k, v) == (k :> v) @@ f

\* ------------------------------------------------- part_000: the two caches
\* a getCachedStreamUrl that expires an entry when its age reaches the TTL
getCachedStreamUrl_AtTtl(videoId) ==
  IF videoId \notin DOMAIN streamUrlCache THEN Null
  ELSE IF now - streamUrlCache[videoId].timestamp >= STREAM_CACHE_TTL_MS THEN Null
  ELSE streamUrlCache[videoId].url

getCachedStreamUrl(videoId) ==
  IF videoId \notin DOMAIN streamUrlCache THEN Null
  ELSE IF now - streamUrlCache[videoId].timestamp > STREAM_CACHE_TTL_MS THEN Null
  ELSE streamUrlCache[videoId].url

\* the cache after getCachedStreamUrl(videoId): an expired entry is deleted
\* a read that leaves an expired entry in the Map
getCachedStreamUrlEffect_Keeps(videoId) == streamUrlCache

getCachedStreamUrlEffect(videoId) ==
  IF /\ videoId \in DOMAIN streamUrlCache
     /\ now - streamUrlCache[videoId].timestamp > STREAM_CACHE_TTL_MS
  THEN Remove(streamUrlCache, videoId)
  ELSE streamUrlCache

setCachedStreamUrl(videoId, url) ==
  Put(streamUrlCache, videoId, [url |-> url, timestamp |-> now])

getCachedVideoInfo(videoId) ==
  IF videoId \notin DOMAIN videoInfoCache THEN NoInfo
  ELSE IF now - videoInfoCache[videoId].timestamp > INFO_CACHE_TTL_MS THEN NoInfo
  ELSE videoInfoCache[videoId].info

getCachedVideoInfoEffect(videoId) ==
  IF /\ videoId \in DOMAIN videoInfoCache
     /\ now - videoInfoCache[videoId].timestamp > INFO_CACHE_TTL_MS
  THEN Remove(videoInfoCache, videoId)
  ELSE videoInfoCache

setCachedVideoInfo(videoId, info) ==
  Put(videoInfoCache, videoId, [info |-> info, timestamp |-> now])

\* ------------------------------------------- part_000: extraction collaborator
\* A format descriptor of ytdl-core, with the fields the server reads.
\* audioBitrate 0 stands for an absent bitrate (the code reads `|| 0`).
Fmt(url, hasVideo, hasAudio, audioBitrate) ==
  [url |-> url, hasVideo |-> hasVideo, hasAudio |-> hasAudio,
   audioBitrate |-> audioBitrate]

\* ytdl.filterFormats(formats, 'audioonly'): formats with a url, audio and no video
filterFormatsAudioOnly(formats) ==
  SelectSeq(formats, LAMBDA f : Truthy(f.url) /\ ~f.hasVideo /\ f.hasAudio)

\* audioFormats.reduce(..., audioFormats[0]): the first format of highest bitrate
RECURSIVE reduceBestAudio(_, _, _)
reduceBestAudio(audioFormats, i, best) ==
  IF i > Len(audioFormats) THEN best
  ELSE reduceBestAudio(audioFormats, i + 1,
         IF audioFormats[i].audioBitrate > best.audioBitrate
         THEN audioFormats[i] ELSE best)

\* What the body of fetchStreamUrl's promise makes of the result of ytdl.getInfo:
\* the value it returns or the error it throws.
resolveStreamUrl(got) ==
  IF ~got.ok THEN Err(got.err)
  ELSE LET audioFormats == filterFormatsAudioOnly(got.formats) IN
       IF Len(audioFormats) = 0 THEN Err("No audio formats found")
       ELSE LET bestAudio == reduceBestAudio(audioFormats, 1, audioFormats[1]) IN
            IF ~Truthy(bestAudio.url) THEN Err("No stream URL found")
            ELSE OkUrl(bestAudio.url)

\* Results of ytdl.getInfo the server specification draws from.
GetInfoResults ==
  {[ok |-> FALSE, err |-> e, formats |-> <<>>] : e \in ExtractionErrors}
  \cup {[ok |-> TRUE, err |-> "", formats |-> fs] : fs \in
         { <<Fmt("v1", TRUE, TRUE, 128)>>,
           <<Fmt("u1", FALSE, TRUE, 128), Fmt("v1", TRUE, TRUE, 128)>>,
           <<Fmt("u0", FALSE, TRUE, 64), Fmt("u2", FALSE, TRUE, 160)>> }}

\* videoDetails of ytdl.getBasicInfo; "" stands for an absent string, -1 for an
\* absent lengthSeconds, present = FALSE for a payload without videoDetails.
Details(present, title, authorName, ownerChannelName, thumbnails, lengthSeconds) ==
  [present |-> present, title |-> title, authorName |-> authorName,
   ownerChannelName |-> ownerChannelName, thumbnails |-> thumbnails,
   lengthSeconds |-> lengthSeconds]

Or(a, b) == IF Truthy(a) THEN a ELSE b

\* What the body of fetchVideoInfo's promise makes of the result of
\* ytdl.getBasicInfo.
resolveVideoInfo(videoId, got) ==
  IF ~got.ok THEN Err(got.err)
  ELSE LET details == got.details IN
       IF ~details.present THEN Err("TypeError")   \* details.title of undefined
       ELSE OkInfo([videoId |-> videoId,
                    title |-> Or(details.title, "Unknown Title"),
                    channelName |-> Or(details.authorName,
                                       Or(details.ownerChannelName, "Unknown Channel")),
                    thumbnail |-> IF Len(details.thumbnails) = 0 THEN ""
                                  ELSE Or(details.thumbnails[Len(details.thumbnails)], ""),
                    duration |-> IF details.lengthSeconds < 0 THEN 0
                                 ELSE details.lengthSeconds])

GetBasicInfoResults ==
  {[ok |-> FALSE, err |-> e, details |-> Details(FALSE, "", "", "", <<>>, -1)] :
     e \in ExtractionErrors}
  \cup {[ok |-> TRUE, err |-> "", details |-> d] : d \in
         { Details(TRUE, "Song", "Artist", "", <<"t1", "t2">>, 213),
           Details(TRUE, "", "", "", <<>>, -1) }}

\* ------------------------------------------ part_000: the request handlers
\* fetchStreamUrl without the pendingStreamRequests.has check
fetchStreamUrlBranch_NoPendingCheck(videoId) ==
  IF Truthy(getCachedStreamUrl(videoId)) THEN "hit" ELSE "start"

\* The branch fetchStreamUrl takes: cached value, attach to the promise in
\* flight, or start an extraction.
fetchStreamUrlBranch(videoId) ==
  IF Truthy(getCachedStreamUrl(videoId)) THEN "hit"
  ELSE IF videoId \in DOMAIN pendingStreamRequests THEN "wait"
  ELSE "start"

fetchVideoInfoBranch(videoId) ==
  IF getCachedVideoInfo(videoId) # NoInfo THEN "hit"
  ELSE IF videoId \in DOMAIN pendingInfoRequests THEN "wait"
  ELSE "start"

\* The stream handler after `await fetchStreamUrl` resolved: the abort
\* controller is created, the close listener registered and the upstream
\* fetch started.
startRelay(rq) ==
  [rq EXCEPT !.pc = "awaitFetch", !.awaits = 0, !.extracting = FALSE,
             !.abortListener = TRUE, !.upstream = "open"]

\* catch block of GET /api/stream/:videoId
streamErrorStatus(msg) == IF Includes(msg, "unavailable") THEN 404 ELSE 500

\* catch block of GET /api/info/:videoId
infoErrorStatus(msg) == IF Includes(msg, "Video unavailable") THEN 404 ELSE 500

\* Continuation of a caller of fetchStreamUrl / fetchVideoInfo once its call
\* has settled with `out`: the slot afterwards and what is delivered.
settle(r, rq, out) ==
  CASE rq.kind = "GET_stream" ->
         IF out.ok
         THEN [rq |-> startRelay(rq), ev |-> Event(r, rq, out, 0, "none", NoHeaders)]
         ELSE [rq |-> IdleReq,
               ev |-> Event(r, rq, out, streamErrorStatus(out.err), "json", NoHeaders)]
    [] rq.kind = "HEAD_stream" ->      \* fetchStreamUrl(videoId).catch(() => {})
         [rq |-> IdleReq, ev |-> Event(r, rq, out, 0, "none", NoHeaders)]
    [] rq.kind = "GET_info" ->
         [rq |-> IdleReq,
          ev |-> Event(r, rq, out,
                       IF out.ok THEN 200 ELSE infoErrorStatus(out.err),
                       "json", NoHeaders)]

\* a request takes the first free slot
Arrives(r) == req[r].pc = "idle" /\ \A q \in Reqs : q < r => req[q].pc # "idle"

NewReq(kind, videoId) == [IdleReq EXCEPT !.kind = kind, !.videoId = videoId]

\* GET /api/stream/:videoId with a valid identifier, up to its first await
GetStream(r, videoId) ==
  /\ variant = "map"
  /\ Arrives(r)
  /\ LET branch == fetchStreamUrlBranch(videoId)
         rq == NewReq("GET_stream", videoId)
         hit == settle(r, rq, OkUrl(getCachedStreamUrl(videoId)))
     IN /\ streamUrlCache' = getCachedStreamUrlEffect(videoId)
        /\ pendingStreamRequests' =
             IF branch = "start" THEN Put(pendingStreamRequests, videoId, r)
             ELSE pendingStreamRequests
        /\ req' = [req EXCEPT ![r] =
             CASE branch = "hit" -> hit.rq
               [] branch = "wait" ->
                    [rq EXCEPT !.pc = "awaitResolve",
                               !.awaits = pendingStreamRequests[videoId]]
               [] branch = "start" ->
                    [rq EXCEPT !.pc = "awaitResolve", !.awaits = r,
                               !.extracting = TRUE]]
        /\ sent' = IF branch = "hit" THEN {hit.ev} ELSE {}
  /\ UNCHANGED <<variant, lruVars, pureVars, now, videoInfoCache, pendingInfoRequests>>

\* HEAD /api/stream/:videoId with a valid identifier: answers 200 at once and,
\* when the identifier is not cached, calls fetchStreamUrl in the background
\* a HEAD handler that answers when the resolution has settled
HeadStream_Awaits(r, videoId) ==
  /\ variant = "map"
  /\ Arrives(r)
  /\ LET branch == fetchStreamUrlBranch(videoId)
         rq == NewReq("HEAD_stream", videoId)
     IN /\ streamUrlCache' = getCachedStreamUrlEffect(videoId)
        /\ pendingStreamRequests' =
             IF branch = "start" THEN Put(pendingStreamRequests, videoId, r)
             ELSE pendingStreamRequests
        /\ req' = [req EXCEPT ![r] =
             IF branch = "hit" THEN IdleReq
             ELSE IF branch = "wait"
             THEN [rq EXCEPT !.pc = "background",
                             !.awaits = pendingStreamRequests[videoId]]
             ELSE [rq EXCEPT !.pc = "background", !.awaits = r,
                             !.extracting = TRUE]]
        /\ sent' = IF branch = "hit"
                   THEN {Event(r, rq, NoOutcome, 200, "empty", NoHeaders)} ELSE {}
  /\ UNCHANGED <<variant, lruVars, pureVars, now, videoInfoCache, pendingInfoRequests>>

HeadStream(r, videoId) ==
  /\ variant = "map"
  /\ Arrives(r)
  /\ LET cached == getCachedStreamUrl(videoId)
         branch == fetchStreamUrlBranch(videoId)
         rq == NewReq("HEAD_stream", videoId)
     IN /\ streamUrlCache' = getCachedStreamUrlEffect(videoId)
        /\ pendingStreamRequests' =
             IF ~Truthy(cached) /\ branch = "start"
             THEN Put(pendingStreamRequests, videoId, r)
             ELSE pendingStreamRequests
        /\ req' = [req EXCEPT ![r] =
             IF Truthy(cached) \/ branch = "hit" THEN IdleReq
             ELSE IF branch = "wait"
             THEN [rq EXCEPT !.pc = "background",
                             !.awaits = pendingStreamRequests[videoId]]
             ELSE [rq EXCEPT !.pc = "background", !.awaits = r,
                             !.extracting = TRUE]]
        /\ sent' = {Event(r, rq, NoOutcome, 200, "empty",
                      IF Truthy(cached)
                      THEN Hdrs("audio/mp4", "", "", "bytes", "public, max-age=7200", "")
                      ELSE Hdrs("", "", "", "bytes", "public, max-age=7200", ""))}
  /\ UNCHANGED <<variant, lruVars, pureVars, now, videoInfoCache, pendingInfoRequests>>

\* GET /api/info/:videoId with a valid identifier, up to its first await
GetInfo(r, videoId) ==
  /\ variant = "map"
  /\ Arrives(r)
  /\ LET branch == fetchVideoInfoBranch(videoId)
         rq == NewReq("GET_info", videoId)
         hit == settle(r, rq, OkInfo(getCachedVideoInfo(videoId)))
     IN /\ videoInfoCache' = getCachedVideoInfoEffect(videoId)
        /\ pendingInfoRequests' =
             IF branch = "start" THEN Put(pendingInfoRequests, videoId, r)
             ELSE pendingInfoRequests
        /\ req' = [req EXCEPT ![r] =
             CASE branch = "hit" -> hit.rq
               [] branch = "wait" ->
                    [rq EXCEPT !.pc = "awaitResolve",
                               !.awaits = pendingInfoRequests[videoId]]
               [] branch = "start" ->
                    [rq EXCEPT !.pc = "awaitResolve", !.awaits = r,
                               !.extracting = TRUE]]
        /\ sent' = IF branch = "hit" THEN {hit.ev} ELSE {}
  /\ UNCHANGED <<variant, lruVars, pureVars, now, streamUrlCache, pendingStreamRequests>>

\* a promise body whose finally block leaves the registration in place
finallyStream_Keep(videoId) == pendingStreamRequests

\* finally { pendingStreamRequests.delete(videoId) }
finallyStream(videoId) == Remove(pendingStreamRequests, videoId)

finallyInfo(videoId) == Remove(pendingInfoRequests, videoId)

\* a promise body that stores whatever it ends with
storeStreamUrl_Always(videoId, out) == setCachedStreamUrl(videoId, out.url)

\* The stream-URL cache after the try block of the promise body: the store is
\* its last statement and is not reached when anything before it throws.
storeStreamUrl(videoId, out) ==
  IF out.ok THEN setCachedStreamUrl(videoId, out.url) ELSE streamUrlCache

storeVideoInfo(videoId, out) ==
  IF out.ok THEN setCachedVideoInfo(videoId, out.info) ELSE videoInfoCache

StreamKinds == {"GET_stream", "HEAD_stream"}
InfoKinds == {"GET_info"}

\* request q waits for the promise made by call l
Awaiting(q, l, kinds) ==
  /\ req[q].kind \in kinds
  /\ req[q].pc \in {"awaitResolve", "background"}
  /\ req[q].awaits = l

\* ytdl.getInfo of the extraction started by call l settles with `got`: the
\* promise body runs to its end (cache store, finally: pending delete) and the
\* callers that await the promise continue.
StreamExtractionDone(l, got) ==
  /\ variant = "map"
  /\ req[l].extracting
  /\ req[l].kind \in StreamKinds
  /\ LET videoId == req[l].videoId
         out == resolveStreamUrl(got)
         waiters == {q \in Reqs : Awaiting(q, l, StreamKinds)}
     IN /\ streamUrlCache' = storeStreamUrl(videoId, out)
        /\ pendingStreamRequests' = finallyStream(videoId)
        /\ req' = [q \in Reqs |->
             IF q \in waiters THEN settle(q, req[q], out).rq ELSE req[q]]
        /\ sent' = {settle(q, req[q], out).ev : q \in waiters}
  /\ UNCHANGED <<variant, lruVars, pureVars, now, videoInfoCache, pendingInfoRequests>>

\* ytdl.getBasicInfo of the extraction started by call l settles with `got`
InfoExtractionDone(l, got) ==
  /\ variant = "map"
  /\ req[l].extracting
  /\ req[l].kind \in InfoKinds
  /\ LET videoId == req[l].videoId
         out == resolveVideoInfo(videoId, got)
         waiters == {q \in Reqs : Awaiting(q, l, InfoKinds)}
     IN /\ videoInfoCache' = storeVideoInfo(videoId, out)
        /\ pendingInfoRequests' = finallyInfo(videoId)
        /\ req' = [q \in Reqs |->
             IF q \in waiters THEN settle(q, req[q], out).rq ELSE req[q]]
        /\ sent' = {settle(q, req[q], out).ev : q \in waiters}
  /\ UNCHANGED <<variant, lruVars, pureVars, now, streamUrlCache, pendingStreamRequests>>

\* ------------------------------------------------- part_000: the stream relay
\* Headers of the upstream request: the inbound Range header when there is one
\* ("" stands for no header).
upstreamRequestHeaders(range) ==
  [userAgent |-> "Mozilla/5.0 (Windows NT 10.0; Win64; x64) AppleWebKit/537.36",
   Range |-> IF Truthy(range) THEN range ELSE ""]

\* Status and headers the handler sets from the upstream response
relayStatus(upstream) == upstream.status

\* a relay that passes every upstream header on as it is
relayHeaders_CopyAll(upstream) == upstream.headers

relayHeaders(upstream) ==
  [h \in HeaderNames |->
     CASE h = "cache-control" -> "public, max-age=7200"
       [] h = "accept-ranges" -> Or(upstream.headers["accept-ranges"], "bytes")
       [] h = "content-type" -> Or(upstream.headers["content-type"], "audio/mp4")
       [] h = "content-length" -> Or(upstream.headers["content-length"], "")
       [] h = "content-range" -> Or(upstream.headers["content-range"], "")
       [] OTHER -> ""]

\* Upstream responses the server specification draws from.
UpstreamResponses ==
  { [status |-> 200, hasBody |-> TRUE,
     headers |-> Hdrs("audio/webm", "1000", "", "bytes", "private", "e1")],
    [status |-> 206, hasBody |-> TRUE,
     headers |-> Hdrs("audio/webm", "100", "bytes 100-199/1000", "", "", "")],
    [status |-> 403, hasBody |-> TRUE,
     headers |-> Hdrs("text/html", "", "", "", "", "")],
    [status |-> 304, hasBody |-> FALSE, headers |-> NoHeaders] }

\* `await fetch(directUrl, ...)` resolves with the upstream response: status and
\* headers are set, then the body is piped (or the response ended when there
\* is no body).
UpstreamResponds(r, upstream) ==
  /\ variant = "map"
  /\ req[r].pc = "awaitFetch"
  /\ req[r].upstream = "open"
  /\ req' = [req EXCEPT ![r] =
       IF upstream.hasBody
       THEN [@ EXCEPT !.pc = "streaming", !.headersSent = TRUE]
       ELSE IdleReq]
  /\ sent' = {Event(r, req[r], NoOutcome, relayStatus(upstream),
                    IF upstream.hasBody THEN "audio" ELSE "empty",
                    relayHeaders(upstream))}
  /\ UNCHANGED <<variant, lruVars, pureVars, now, streamUrlCache, videoInfoCache,
                 pendingStreamRequests, pendingInfoRequests>>

\* a catch block that evicts the cached URL of the failed relay
FetchRejects_Evicts(r) ==
  /\ variant = "map"
  /\ req[r].pc = "awaitFetch"
  /\ req[r].upstream = "open"
  /\ req' = [req EXCEPT ![r] = IdleReq]
  /\ sent' = {Event(r, req[r], NoOutcome, streamErrorStatus("fetch failed"),
                    "json", NoHeaders)}
  /\ streamUrlCache' = [id \in DOMAIN streamUrlCache \ {req[r].videoId} |-> streamUrlCache[id]]
  /\ UNCHANGED <<variant, lruVars, pureVars, now, videoInfoCache,
                 pendingStreamRequests, pendingInfoRequests>>

\* `await fetch(directUrl, ...)` rejects with a network error (not an abort):
\* the catch block answers 500 as no header has been sent
FetchRejects(r) ==
  /\ variant = "map"
  /\ req[r].pc = "awaitFetch"
  /\ req[r].upstream = "open"
  /\ req' = [req EXCEPT ![r] = IdleReq]
  /\ sent' = {Event(r, req[r], NoOutcome, streamErrorStatus("fetch failed"),
                    "json", NoHeaders)}
  /\ UNCHANGED <<variant, lruVars, pureVars, now, streamUrlCache, videoInfoCache,
                 pendingStreamRequests, pendingInfoRequests>>

\* The close listener of the stream handler: abortController.abort().  The
\* upstream fetch is cancelled; its AbortError is swallowed by the handler,
\* which ends.
onClose(rq) == IdleReq

\* The client of a stream request closes its connection: req emits "close".
\* Only a listener that is registered at that moment runs.
ClientClose(r) ==
  /\ variant = "map"
  /\ req[r].kind = "GET_stream"
  /\ req[r].pc \in {"awaitResolve", "awaitFetch", "streaming"}
  /\ ~req[r].closed
  /\ req' = [req EXCEPT ![r] =
       IF @.abortListener THEN onClose(@) ELSE [@ EXCEPT !.closed = TRUE]]
  /\ sent' = {}
  /\ UNCHANGED <<variant, lruVars, pureVars, now, streamUrlCache, videoInfoCache,
                 pendingStreamRequests, pendingInfoRequests>>

\* The upstream body ends: the pipeline finishes the response
StreamEnds(r) ==
  /\ variant = "map"
  /\ req[r].pc = "streaming"
  /\ ~req[r].closed
  /\ req' = [req EXCEPT ![r] = IdleReq]
  /\ sent' = {}
  /\ UNCHANGED <<variant, lruVars, pureVars, now, streamUrlCache, videoInfoCache,
                 pendingStreamRequests, pendingInfoRequests>>

\* a relay whose error handler answers with a JSON error whatever was sent
onStreamError_Json(r, rq) == {Event(r, rq, NoOutcome, 500, "json", NoHeaders)}

\* What the error handlers of the running relay do to the response: the
\* "error" listener of the body stream destroys it, the pipeline callback only
\* logs.  No status and no body is written.
onStreamError(r, rq) == {Event(r, rq, NoOutcome, 0, "destroyed", NoHeaders)}

\* The upstream body fails while it is relayed: the response is destroyed
StreamFails(r) ==
  /\ variant = "map"
  /\ req[r].pc = "streaming"
  /\ ~req[r].closed
  /\ req' = [req EXCEPT ![r] = IdleReq]
  /\ sent' = onStreamError(r, req[r])
  /\ UNCHANGED <<variant, lruVars, pureVars, now, streamUrlCache, videoInfoCache,
                 pendingStreamRequests, pendingInfoRequests>>

\* The pipeline writes to the response of a client that closed before the
\* listener was registered: the write fails and the pipeline destroys the body
\* stream.
PipelineFails(r) ==
  /\ variant = "map"
  /\ req[r].pc = "streaming"
  /\ req[r].closed
  /\ req' = [req EXCEPT ![r] = IdleReq]
  /\ sent' = {}
  /\ UNCHANGED <<variant, lruVars, pureVars, now, streamUrlCache, videoInfoCache,
                 pendingStreamRequests, pendingInfoRequests>>

\* ------------------------------------------- part_000: cache maintenance
EmptyMap == [x \in {} |-> Null]

\* a handler that reads the sizes after it has cleared the caches
clearResponse_After(beforeStreams, beforeInfo) ==
  [r |-> 0, kind |-> "POST_clear", videoId |-> "", promise |-> 0, result |-> NoOutcome,
   status |-> 200, body |-> "json", headers |-> NoHeaders, afterHeaders |-> FALSE,
   cleared |-> [streamUrls |-> 0, videoInfo |-> 0]]

\* `res.json({ message: "Cache cleared", cleared: { streamUrls: beforeStreams,
\* videoInfo: beforeInfo } })`
clearResponse(beforeStreams, beforeInfo) ==
  [r |-> 0, kind |-> "POST_clear", videoId |-> "", promise |-> 0, result |-> NoOutcome,
   status |-> 200, body |-> "json", headers |-> NoHeaders, afterHeaders |-> FALSE,
   cleared |-> [streamUrls |-> beforeStreams, videoInfo |-> beforeInfo]]

\* Map.prototype.size
Size(map) == Cardinality(DOMAIN map)

\* a clear that also forgets the resolutions in flight
ClearCache_Pending ==
  /\ variant = "map"
  /\ streamUrlCache' = EmptyMap
  /\ videoInfoCache' = EmptyMap
  /\ pendingStreamRequests' = EmptyMap
  /\ pendingInfoRequests' = EmptyMap
  /\ sent' = {clearResponse(Size(streamUrlCache), Size(videoInfoCache))}
  /\ UNCHANGED <<variant, lruVars, pureVars, now, req>>

\* POST /api/cache/clear
ClearCache ==
  /\ variant = "map"
  /\ streamUrlCache' = EmptyMap
  /\ videoInfoCache' = EmptyMap
  /\ sent' = {clearResponse(Size(streamUrlCache), Size(videoInfoCache))}
  /\ UNCHANGED <<variant, lruVars, pureVars, now, pendingStreamRequests, pendingInfoRequests, req>>

\* the setInterval callback: periodic cache cleanup
\* the log line of the cleanup, written when it has removed something
cleanupLog(streamsCleaned, infoCleaned) ==
  IF streamsCleaned > 0 \/ infoCleaned > 0
  THEN {[r |-> 0, kind |-> "cleanup", videoId |-> "", promise |-> 0, result |-> NoOutcome,
         status |-> 0, body |-> "none", headers |-> NoHeaders, afterHeaders |-> FALSE,
         cleaned |-> [streams |-> streamsCleaned, info |-> infoCleaned]]}
  ELSE {}

\* a cleanup that also removes the entries whose age equals the TTL
Sweep_AtTtl ==
  /\ variant = "map"
  /\ streamUrlCache' =
       [k \in {x \in DOMAIN streamUrlCache :
                 ~(now - streamUrlCache[x].timestamp >= STREAM_CACHE_TTL_MS)}
          |-> streamUrlCache[k]]
  /\ videoInfoCache' =
       [k \in {x \in DOMAIN videoInfoCache :
                 ~(now - videoInfoCache[x].timestamp >= INFO_CACHE_TTL_MS)}
          |-> videoInfoCache[k]]
  /\ sent' = cleanupLog(Size(streamUrlCache) - Size(streamUrlCache'),
                        Size(videoInfoCache) - Size(videoInfoCache'))
  /\ UNCHANGED <<variant, lruVars, pureVars, now, pendingStreamRequests, pendingInfoRequests, req>>

Sweep ==
  /\ variant = "map"
  /\ streamUrlCache' =
       [k \in {x \in DOMAIN streamUrlCache :
                 ~(now - streamUrlCache[x].timestamp > STREAM_CACHE_TTL_MS)}
          |-> streamUrlCache[k]]
  /\ videoInfoCache' =
       [k \in {x \in DOMAIN videoInfoCache :
                 ~(now - videoInfoCache[x].timestamp > INFO_CACHE_TTL_MS)}
          |-> videoInfoCache[k]]
  /\ sent' = cleanupLog(Size(streamUrlCache) - Size(streamUrlCache'),
                        Size(videoInfoCache) - Size(videoInfoCache'))
  /\ UNCHANGED <<variant, lruVars, pureVars, now, pendingStreamRequests, pendingInfoRequests, req>>

\* time passes (the function specifications say what becomes of arg and ret)
Tick(limit) ==
  /\ now < limit
  /\ now' = now + 1
  /\ sent' = {}
  /\ UNCHANGED <<variant, lruVars, streamUrlCache, videoInfoCache,
                 pendingStreamRequests, pendingInfoRequests, req>>

\* ------------------------------------ index_20260113173543.js: LRU caches
\* An LRUCache is the sequence of its entries, least recently used first.
\* start is the time the entry's age counts from.  storedAt is history: the
\* time of the set that stored the value; the program does not read it.
LruEntry(key, value) == [key |-> key, value |-> value, start |-> now, storedAt |-> now]

lruIndex(cache, key) ==
  IF \E i \in 1..Len(cache) : cache[i].key = key
  THEN CHOOSE i \in 1..Len(cache) : cache[i].key = key
  ELSE 0

lruDelete(cache, key) == SelectSeq(cache, LAMBDA e : e.key # key)

lruIsStale(e, ttl) == now - e.start > ttl

\* cache.has(key): a stale entry answers false and stays; nothing is touched
lruHas(cache, key, ttl) ==
  LET i == lruIndex(cache, key) IN i # 0 /\ ~lruIsStale(cache[i], ttl)

\* cache.get(key): undefined when absent or stale
lruGet(cache, key, ttl, miss) ==
  LET i == lruIndex(cache, key) IN
  IF i = 0 \/ lruIsStale(cache[i], ttl) THEN miss ELSE cache[i].value

\* the cache after cache.get(key): a stale entry is deleted; a live one becomes
\* the most recently used and, with updateAgeOnGet: true, its age restarts
lruGetEffect(cache, key, ttl) ==
  LET i == lruIndex(cache, key) IN
  IF i = 0 THEN cache
  ELSE IF lruIsStale(cache[i], ttl) THEN lruDelete(cache, key)
  ELSE Append(lruDelete(cache, key), [cache[i] EXCEPT !.start = now])

\* the cache after cache.set(key, value): at max size the least recently used
\* entry is evicted first
lruSet(cache, key, value, max) ==
  IF lruIndex(cache, key) # 0 THEN Append(lruDelete(cache, key), LruEntry(key, value))
  ELSE IF Len(cache) >= max THEN Append(Tail(cache), LruEntry(key, value))
  ELSE Append(cache, LruEntry(key, value))

\* ------------------------------ index_20260113173543.js: format selection
\* A format of yt-dlp's JSON with the fields the server reads; filesize in MB,
\* 0 and "" stand for absent fields.
YtFmt(url, vcodec, acodec, filesize, container, ext, abr, protocol) ==
  [url |-> url, vcodec |-> vcodec, acodec |-> acodec, filesize |-> filesize,
   container |-> container, ext |-> ext, abr |-> abr, protocol |-> protocol]

formatPriority(container) ==
  CASE container = "m4a" -> 10 [] container = "mp4" -> 9 [] container = "webm" -> 8
    [] container = "mp3" -> 7 [] container = "opus" -> 6 [] OTHER -> 1

formatScore(format) ==
  formatPriority(Or(format.container, format.ext)) * 1000
  + format.abr
  + (IF format.filesize # 0 THEN 100 - format.filesize ELSE 0)
  + (IF format.protocol = "http_dash_segments" THEN 500 ELSE 0)

\* scoredFormats.sort((a, b) => b.score - a.score)[0]: the sort is stable, so
\* the first format of highest score
RECURSIVE firstBestScore(_, _, _)
firstBestScore(audioFormats, i, best) ==
  IF i > Len(audioFormats) THEN best
  ELSE firstBestScore(audioFormats, i + 1,
         IF formatScore(audioFormats[i]) > formatScore(best)
         THEN audioFormats[i] ELSE best)

NoFormat == YtFmt("", "", "", 0, "", "", 0, "")

\* selectFastestAudioFormat(formats); NoFormat stands for null
selectFastestAudioFormat(formats) ==
  LET audioFormats ==
        SelectSeq(formats, LAMBDA f : /\ f.vcodec = "none" /\ f.acodec # "none"
                                       /\ f.filesize # 0 /\ f.filesize < 50)
  IN IF Len(audioFormats) = 0 THEN NoFormat
     ELSE firstBestScore(audioFormats, 1, audioFormats[1])

\* first non-empty line of the trimmed output of `yt-dlp -g`
RECURSIVE firstLine(_)
firstLine(stdout) ==
  IF Len(stdout) = 0 THEN ""
  ELSE IF Head(stdout) # "" THEN Head(stdout) ELSE firstLine(Tail(stdout))

\* getStreamUrl, METHOD 1: what it makes of the formats getAllFormats returned
\* (getAllFormats returns [] when yt-dlp fails); NoOutcome: go on to METHOD 2
resolveFromFormats(formats) ==
  LET bestFormat == selectFastestAudioFormat(formats) IN
  IF bestFormat # NoFormat /\ Truthy(bestFormat.url) THEN OkUrl(bestFormat.url)
  ELSE NoOutcome

\* getStreamUrl, METHOD 2: what it makes of the result of runYtDlp([... '-g'])
resolveFromFallback(got) ==
  IF ~got.ok THEN Err(got.err)
  ELSE LET directUrl == firstLine(got.stdout) IN
       IF ~Truthy(directUrl) THEN Err("No stream URL found") ELSE OkUrl(directUrl)

\* Results of getAllFormats and of runYtDlp the server specification draws from
GetAllFormatsResults ==
  { <<>>,
    <<YtFmt("v1", "avc1", "mp4a", 30, "mp4", "mp4", 128, "https"),
      YtFmt("u1", "none", "mp4a", 3, "m4a", "m4a", 128, "https")>> }

RunYtDlpErrors == {"yt-dlp timed out"}

FallbackResults ==
  {[ok |-> FALSE, err |-> e, stdout |-> <<>>] : e \in RunYtDlpErrors}
  \cup {[ok |-> TRUE, err |-> "", stdout |-> out] : out \in { <<"u2">>, <<"">> }}

\* --------------------------- index_20260113173543.js: metadata extraction
\* The JSON yt-dlp -j prints, with the fields the server reads; valid = FALSE
\* stands for output JSON.parse rejects, "" and 0 for absent fields.
YtJson(valid, title, channel, uploader, thumbnail, thumbnails, duration) ==
  [valid |-> valid, title |-> title, channel |-> channel, uploader |-> uploader,
   thumbnail |-> thumbnail, thumbnails |-> thumbnails, duration |-> duration]

RECURSIVE widestThumbnail(_, _, _)
widestThumbnail(thumbs, i, acc) ==
  IF i > Len(thumbs) THEN acc
  ELSE widestThumbnail(thumbs, i + 1, IF thumbs[i].width > acc.width THEN thumbs[i] ELSE acc)

pickBestThumbnailFromYtDlpJson(json) ==
  IF Truthy(json.thumbnail) THEN json.thumbnail
  ELSE IF Len(json.thumbnails) = 0 THEN ""
  ELSE widestThumbnail(json.thumbnails, 1, json.thumbnails[1]).url

\* getVideoInfo: what the try block makes of the result of runYtDlp([... '-j'])
resolveYtInfo(videoId, got) ==
  IF ~got.ok THEN Err(got.err)
  ELSE IF ~got.parsed.valid THEN Err("SyntaxError")
  ELSE OkInfo([videoId |-> videoId,
               title |-> Or(got.parsed.title, "Unknown Title"),
               channelName |-> Or(got.parsed.channel,
                                  Or(got.parsed.uploader, "Unknown Channel")),
               thumbnail |-> pickBestThumbnailFromYtDlpJson(got.parsed),
               duration |-> got.parsed.duration])

YtInfoResults ==
  {[ok |-> FALSE, err |-> e, parsed |-> YtJson(FALSE, "", "", "", "", <<>>, 0)] :
     e \in RunYtDlpErrors}
  \cup {[ok |-> TRUE, err |-> "", parsed |-> j] : j \in
         { YtJson(TRUE, "Song", "", "Artist", "",
                  <<[url |-> "t1", width |-> 120], [url |-> "t2", width |-> 480]>>, 213),
           YtJson(FALSE, "", "", "", "", <<>>, 0) }}

\* ------------------------------- index_20260113173543.js: request handlers
streamUrlCacheTtl == 1       \* ttl: 3 h  = 1 period
videoInfoCacheTtl == 8       \* ttl: 24 h = 8 periods

\* event names of getStreamUrl are `stream:${videoId}:success` / `:error`
streamEvent(videoId) == "stream:" \o videoId

\* a getVideoInfo that registers under the bare identifier
infoKey_Bare(videoId) == videoId

\* key of getVideoInfo in pendingRequests, and prefix of its event names
infoKey(videoId) == "info:" \o videoId

getStreamUrlBranch(videoId) ==
  IF Truthy(lruGet(lruStreamUrlCache, videoId, streamUrlCacheTtl, Null)) THEN "hit"
  ELSE IF videoId \in pendingRequests THEN "wait"
  ELSE "start"

getVideoInfoBranch(videoId) ==
  IF lruGet(lruVideoInfoCache, videoId, videoInfoCacheTtl, NoInfo) # NoInfo THEN "hit"
  ELSE IF infoKey(videoId) \in pendingRequests THEN "wait"
  ELSE "start"

\* headers the stream handler sets before it awaits the stream URL
OptimisticHeaders == Hdrs("audio/mpeg", "", "", "bytes", "public, max-age=7200", "")

\* headers already set on the response when proxyStream starts
priorHeaders(rq) == IF rq.optimistic THEN OptimisticHeaders ELSE NoHeaders

\* proxyStream up to `await fetch`: abort controller, close listener, fetch
proxyStream(rq) ==
  [rq EXCEPT !.pc = "awaitFetch", !.listens = "", !.extracting = FALSE,
             !.abortListener = TRUE, !.upstream = "open"]

\* Continuation of a caller of getStreamUrl / getVideoInfo once its call has
\* settled with `out`
lruSettle(r, rq, out) ==
  CASE rq.kind = "GET_stream" ->
         IF out.ok
         THEN [rq |-> proxyStream(rq), ev |-> Event(r, rq, out, 0, "none", NoHeaders)]
         ELSE [rq |-> IdleReq,
               ev |-> Event(r, rq, out, 500, "json",
                            [OptimisticHeaders EXCEPT !["content-type"] = "application/json"])]
    [] rq.kind \in {"HEAD_stream", "warm"} ->     \* getStreamUrl(videoId).catch(() => {})
         [rq |-> IdleReq, ev |-> Event(r, rq, out, 0, "none", NoHeaders)]
    [] rq.kind = "GET_info" ->
         [rq |-> IdleReq,
          ev |-> Event(r, rq, out, IF out.ok THEN 200 ELSE 500, "json", NoHeaders)]

\* getStreamUrl(videoId) called for request rq, up to its first await
getStreamUrlEnter(r, rq) ==
  LET videoId == rq.videoId
      branch == getStreamUrlBranch(videoId)
      hit == lruSettle(r, rq, OkUrl(lruGet(lruStreamUrlCache, videoId, streamUrlCacheTtl, Null)))
  IN /\ lruStreamUrlCache' = lruGetEffect(lruStreamUrlCache, videoId, streamUrlCacheTtl)
     /\ pendingRequests' =
          IF branch = "start" THEN pendingRequests \cup {videoId} ELSE pendingRequests
     /\ req' = [req EXCEPT ![r] =
          CASE branch = "hit" -> hit.rq
            [] branch = "wait" ->
                 [rq EXCEPT !.pc = "awaitEvent", !.listens = streamEvent(videoId),
                            !.optimistic = (rq.kind = "GET_stream")]
            [] branch = "start" ->
                 [rq EXCEPT !.pc = "awaitFormats", !.extracting = TRUE,
                            !.optimistic = (rq.kind = "GET_stream")]]
     /\ sent' = IF branch = "hit" THEN {hit.ev} ELSE {}

\* GET /api/stream/:videoId with a valid identifier, up to its first await
LruGetStream(r, videoId) ==
  /\ variant = "lru"
  /\ Arrives(r)
  /\ getStreamUrlEnter(r, NewReq("GET_stream", videoId))
  /\ UNCHANGED <<variant, mapVars, pureVars, now, lruVideoInfoCache>>

\* HEAD /api/stream/:videoId with a valid identifier: answers 200 at once and,
\* when the cache has no live entry, schedules getStreamUrl with setTimeout(0)
LruHeadStream(r, videoId) ==
  /\ variant = "lru"
  /\ Arrives(r)
  /\ LET rq == NewReq("HEAD_stream", videoId)
     IN /\ req' = [req EXCEPT ![r] =
             IF lruHas(lruStreamUrlCache, videoId, streamUrlCacheTtl) THEN IdleReq
             ELSE [rq EXCEPT !.pc = "timer"]]
        /\ sent' = {Event(r, rq, NoOutcome, 200, "empty", OptimisticHeaders)}
  /\ UNCHANGED <<variant, mapVars, lruVars, pureVars, now>>

\* the setTimeout callback of the HEAD handler
LruTimerFires(r) ==
  /\ variant = "lru"
  /\ req[r].pc = "timer"
  /\ getStreamUrlEnter(r, req[r])
  /\ UNCHANGED <<variant, mapVars, pureVars, now, lruVideoInfoCache>>

\* GET /api/info/:videoId with a valid identifier, up to its first await
LruGetInfo(r, videoId) ==
  /\ variant = "lru"
  /\ Arrives(r)
  /\ LET branch == getVideoInfoBranch(videoId)
         rq == NewReq("GET_info", videoId)
         hit == lruSettle(r, rq, OkInfo(lruGet(lruVideoInfoCache, videoId,
                                               videoInfoCacheTtl, NoInfo)))
     IN /\ lruVideoInfoCache' = lruGetEffect(lruVideoInfoCache, videoId, videoInfoCacheTtl)
        /\ pendingRequests' =
             IF branch = "start" THEN pendingRequests \cup {infoKey(videoId)}
             ELSE pendingRequests
        /\ req' = [req EXCEPT ![r] =
             CASE branch = "hit" -> hit.rq
               [] branch = "wait" ->
                    [rq EXCEPT !.pc = "awaitEvent", !.listens = infoKey(videoId)]
               [] branch = "start" ->
                    [rq EXCEPT !.pc = "awaitInfo", !.extracting = TRUE]]
        /\ sent' = IF branch = "hit" THEN {hit.ev} ELSE {}
  /\ UNCHANGED <<variant, mapVars, pureVars, now, lruStreamUrlCache>>

\* a leader that emits the success event only
emitted_SuccessOnly(prefix, out) ==
  IF out.ok THEN {q \in Reqs : req[q].listens = prefix} ELSE {}

\* requestEvents.emit(`${prefix}:success`, value) / emit(`${prefix}:error`,
\* error): the callers whose listeners run.  A waiter registers both listeners
\* together and each of them removes both.
emitted(prefix, out) == {q \in Reqs : req[q].listens = prefix}

\* finally { pendingRequests.delete(key) }
pendingRequestsDelete(key) == pendingRequests \ {key}

\* streamUrlCache.set(videoId, url) is reached on the two success paths only
lruStoreStreamUrl(videoId, out) ==
  IF out.ok THEN lruSet(lruStreamUrlCache, videoId, out.url, StreamCacheMax)
  ELSE lruStreamUrlCache

\* The leader l of getStreamUrl ends with `out`: cache store and emit, or emit
\* of the error; finally: pending delete; then the leader's caller and the
\* waiters whose listeners ran continue.
getStreamUrlEnds(l, out) ==
  LET videoId == req[l].videoId
      settled == {l} \cup emitted(streamEvent(videoId), out)
  IN /\ lruStreamUrlCache' = lruStoreStreamUrl(videoId, out)
     /\ pendingRequests' = pendingRequestsDelete(videoId)
     /\ req' = [q \in Reqs |->
          IF q \in settled THEN lruSettle(q, req[q], out).rq ELSE req[q]]
     /\ sent' = {lruSettle(q, req[q], out).ev : q \in settled}

\* getAllFormats of leader l returns `formats`
LruFormatsDone(l, formats) ==
  /\ variant = "lru"
  /\ req[l].pc = "awaitFormats"
  /\ LET out == resolveFromFormats(formats)
     IN IF out.set
        THEN getStreamUrlEnds(l, out)
        ELSE /\ req' = [req EXCEPT ![l].pc = "awaitFallback"]
             /\ sent' = {}
             /\ UNCHANGED <<lruStreamUrlCache, pendingRequests>>
  /\ UNCHANGED <<variant, mapVars, pureVars, now, lruVideoInfoCache>>

\* runYtDlp([... '-g']) of leader l settles with `got` (a timeout is one of
\* its rejections)
LruFallbackDone(l, got) ==
  /\ variant = "lru"
  /\ req[l].pc = "awaitFallback"
  /\ getStreamUrlEnds(l, resolveFromFallback(got))
  /\ UNCHANGED <<variant, mapVars, pureVars, now, lruVideoInfoCache>>

\* runYtDlp([... '-j']) of the getVideoInfo leader l settles with `got`
LruInfoDone(l, got) ==
  /\ variant = "lru"
  /\ req[l].pc = "awaitInfo"
  /\ LET videoId == req[l].videoId
         out == resolveYtInfo(videoId, got)
         settled == {l} \cup emitted(infoKey(videoId), out)
     IN /\ lruVideoInfoCache' =
             IF out.ok THEN lruSet(lruVideoInfoCache, videoId, out.info, InfoCacheMax)
             ELSE lruVideoInfoCache
        /\ pendingRequests' = pendingRequestsDelete(infoKey(videoId))
        /\ req' = [q \in Reqs |->
             IF q \in settled THEN lruSettle(q, req[q], out).rq ELSE req[q]]
        /\ sent' = {lruSettle(q, req[q], out).ev : q \in settled}
  /\ UNCHANGED <<variant, mapVars, pureVars, now, lruStreamUrlCache>>

\* proxyStream: `await fetch(streamUrl, ...)` rejects with a network error (not
\* an abort): 500 as no header has been sent
LruFetchRejects(r) ==
  /\ variant = "lru"
  /\ req[r].pc = "awaitFetch"
  /\ req[r].upstream = "open"
  /\ req' = [req EXCEPT ![r] = IdleReq]
  /\ sent' = {Event(r, req[r], NoOutcome, 500, "json",
                    [priorHeaders(req[r]) EXCEPT !["content-type"] = "application/json"])}
  /\ UNCHANGED <<variant, mapVars, lruVars, pureVars, now>>

\* ------------------------------------ index_20260113173543.js: proxyStream
\* headers of the upstream request of proxyStream
proxyRequestHeaders(range) ==
  [userAgent |-> "Mozilla/5.0 (Windows NT 10.0; Win64; x64) AppleWebKit/537.36",
   Range |-> IF Truthy(range) THEN range ELSE ""]

\* upstream.ok of the fetch API
upstreamOk(upstream) == upstream.status \in 200..299

\* proxyStream never sets the status: the response keeps the status it had,
\* res.statusCode of a fresh Express response
proxyStatus(upstream) == 200

\* the four upstream headers that are copied when they have a value, over
\* the headers already set, and the fixed Cache-Control
proxyHeaders(prior, upstream) ==
  [h \in HeaderNames |->
     CASE h = "cache-control" -> "public, max-age=7200"
       [] h \in {"content-type", "content-length", "content-range", "accept-ranges"} ->
            Or(upstream.headers[h], prior[h])
       [] OTHER -> prior[h]]

\* the catch block of proxyStream for an error that is not an abort
proxyError(prior, headersSent) ==
  IF ~headersSent
  THEN [status |-> 500, body |-> "json",
        headers |-> [prior EXCEPT !["content-type"] = "application/json"]]
  ELSE [status |-> 0, body |-> "none", headers |-> NoHeaders]

\* What proxyStream writes once `await fetch` has resolved with `upstream`
proxyResponse(prior, upstream) ==
  IF ~upstreamOk(upstream)
  THEN proxyError(prior, FALSE)          \* throw new Error("Upstream error: ...")
  ELSE [status |-> proxyStatus(upstream),
        body |-> IF upstream.hasBody THEN "audio" ELSE "empty",
        headers |-> proxyHeaders(prior, upstream)]

\* `await fetch(streamUrl, ...)` resolves with the upstream response
LruUpstreamResponds(r, upstream) ==
  /\ variant = "lru"
  /\ req[r].pc = "awaitFetch"
  /\ req[r].upstream = "open"
  /\ LET out == proxyResponse(priorHeaders(req[r]), upstream)
     IN /\ req' = [req EXCEPT ![r] =
             IF out.body = "audio"
             THEN [@ EXCEPT !.pc = "streaming", !.headersSent = TRUE]
             ELSE IdleReq]
        /\ sent' = {Event(r, req[r], NoOutcome, out.status, out.body, out.headers)}
  /\ UNCHANGED <<variant, mapVars, lruVars, pureVars, now>>

\* the close listener of proxyStream: abortController.abort(); the catch
\* block returns on an aborted signal
lruOnClose(rq) == IdleReq

\* The client of a stream request closes its connection.  proxyStream
\* registers the listener, so that a close during the resolution finds none.
LruClientClose(r) ==
  /\ variant = "lru"
  /\ req[r].kind = "GET_stream"
  /\ req[r].pc \in {"awaitEvent", "awaitFetch", "streaming"}
  /\ ~req[r].closed
  /\ req' = [req EXCEPT ![r] =
       IF @.abortListener THEN lruOnClose(@) ELSE [@ EXCEPT !.closed = TRUE]]
  /\ sent' = {}
  /\ UNCHANGED <<variant, mapVars, lruVars, pureVars, now>>

\* the upstream body ends: the pipeline finishes the response
LruStreamEnds(r) ==
  /\ variant = "lru"
  /\ req[r].pc = "streaming"
  /\ req' = [req EXCEPT ![r] = IdleReq]
  /\ sent' = {}
  /\ UNCHANGED <<variant, mapVars, lruVars, pureVars, now>>

\* the pipeline callback of proxyStream: it logs and writes nothing; the
\* pipeline has destroyed the response
pipelineCallback(r, rq) == {Event(r, rq, NoOutcome, 0, "destroyed", NoHeaders)}

\* the upstream body or the write to the client fails while it is relayed
LruStreamFails(r) ==
  /\ variant = "lru"
  /\ req[r].pc = "streaming"
  /\ req' = [req EXCEPT ![r] = IdleReq]
  /\ sent' = pipelineCallback(r, req[r])
  /\ UNCHANGED <<variant, mapVars, lruVars, pureVars, now>>

\* POST /api/cache/clear
LruClearCache ==
  /\ variant = "lru"
  /\ lruStreamUrlCache' = <<>>
  /\ lruVideoInfoCache' = <<>>
  /\ sent' = {clearResponse(Len(lruStreamUrlCache), Len(lruVideoInfoCache))}
  /\ UNCHANGED <<variant, mapVars, pureVars, now, pendingRequests, req>>

\* ------------------------------------------------------------ specifications
InitServer ==
  /\ variant \in {"map", "lru"}
  /\ now = 0
  /\ streamUrlCache = EmptyMap
  /\ videoInfoCache = EmptyMap
  /\ pendingStreamRequests = EmptyMap
  /\ pendingInfoRequests = EmptyMap
  /\ lruStreamUrlCache = <<>>
  /\ lruVideoInfoCache = <<>>
  /\ pendingRequests = {}
  /\ req = [r \in Reqs |-> IdleReq]
  /\ sent = {}

Init == InitServer /\ arg = Null /\ ret = Null

\* Resolution side of part_000: every request kind, every extraction result;
\* a relay that was started ends with a failed upstream fetch.
Next ==
  \/ \E r \in Reqs, videoId \in Ids : GetStream(r, videoId)
  \/ \E r \in Reqs, videoId \in Ids : HeadStream(r, videoId)
  \/ \E r \in Reqs, videoId \in Ids : GetInfo(r, videoId)
  \/ \E l \in Reqs, got \in GetInfoResults : StreamExtractionDone(l, got)
  \/ \E l \in Reqs, got \in GetBasicInfoResults : InfoExtractionDone(l, got)
  \/ \E r \in Reqs : FetchRejects(r)
  \/ ClearCache

InitMap == Init /\ variant = "map"

InitLru == Init /\ variant = "lru"

Spec == InitMap /\ [][Next]_vars

\* Deduplication in the two builds side by side: GET requests of both
\* namespaces, every extraction result, cache clears.
NextDedup ==
  \/ \E r \in Reqs, videoId \in Ids : GetStream(r, videoId)
  \/ \E r \in Reqs, videoId \in Ids : GetInfo(r, videoId)
  \/ \E l \in Reqs, got \in GetInfoResults : StreamExtractionDone(l, got)
  \/ \E l \in Reqs, got \in GetBasicInfoResults : InfoExtractionDone(l, got)
  \/ \E r \in Reqs : FetchRejects(r)
  \/ ClearCache
  \/ \E r \in Reqs, videoId \in Ids : LruGetStream(r, videoId)
  \/ \E r \in Reqs, videoId \in Ids : LruGetInfo(r, videoId)
  \/ \E l \in Reqs, formats \in GetAllFormatsResults : LruFormatsDone(l, formats)
  \/ \E l \in Reqs, got \in FallbackResults : LruFallbackDone(l, got)
  \/ \E l \in Reqs, got \in YtInfoResults : LruInfoDone(l, got)
  \/ \E r \in Reqs : LruFetchRejects(r)
  \/ LruClearCache

SpecDedup == Init /\ [][NextDedup]_vars

\* Relay side of the part_000 server: stream requests, upstream responses,
\* client disconnects.
RelayGetInfoResults == {got \in GetInfoResults : resolveStreamUrl(got).url # "u2"}

NextRelay ==
  \/ \E r \in Reqs, videoId \in Ids : GetStream(r, videoId)
  \/ \E l \in Reqs, got \in RelayGetInfoResults : StreamExtractionDone(l, got)
  \/ \E r \in Reqs, upstream \in UpstreamResponses : UpstreamResponds(r, upstream)
  \/ \E r \in Reqs : FetchRejects(r)
  \/ \E r \in Reqs : ClientClose(r)
  \/ \E r \in Reqs : StreamEnds(r)
  \/ \E r \in Reqs : StreamFails(r)
  \/ \E r \in Reqs : PipelineFails(r)
  \/ ClearCache

\* The dedup of index_20260113173543.js with fairness: an extraction always
\* ends, as runYtDlp rejects when its timer fires.
NextLru ==
  \/ \E r \in Reqs, videoId \in Ids : LruGetStream(r, videoId)
  \/ \E r \in Reqs, videoId \in Ids : LruGetInfo(r, videoId)
  \/ \E l \in Reqs, formats \in GetAllFormatsResults : LruFormatsDone(l, formats)
  \/ \E l \in Reqs, got \in FallbackResults : LruFallbackDone(l, got)
  \/ \E l \in Reqs, got \in YtInfoResults : LruInfoDone(l, got)
  \/ \E r \in Reqs : LruFetchRejects(r)

ExtractionEnds(l) ==
  \/ \E formats \in GetAllFormatsResults : LruFormatsDone(l, formats)
  \/ \E got \in FallbackResults : LruFallbackDone(l, got)
  \/ \E got \in YtInfoResults : LruInfoDone(l, got)

SpecLruFair ==
  InitLru /\ [][NextLru]_vars /\ \A l \in Reqs : WF_vars(ExtractionEnds(l))

SpecRelay == InitMap /\ [][NextRelay]_vars

\* The two Map caches of part_000 called directly, in any order, while time
\* passes: arg is the call made last, ret what it returned.
CacheHorizon == INFO_CACHE_TTL_MS + 2
CacheInfoIds == {"idA"}
CacheInfos == {[NoInfo EXCEPT !.videoId = "idA", !.title = "Song"]}

Call(op, key, value) == [op |-> op, key |-> key, value |-> value]

CallSetCachedStreamUrl(videoId, url) ==
  /\ streamUrlCache' = setCachedStreamUrl(videoId, url)
  /\ arg' = Call("setCachedStreamUrl", videoId, url)
  /\ ret' = Null
  /\ UNCHANGED <<variant, now, videoInfoCache, pendingStreamRequests,
                 pendingInfoRequests, lruVars, req, sent>>

CallGetCachedStreamUrl(videoId) ==
  /\ streamUrlCache' = getCachedStreamUrlEffect(videoId)
  /\ arg' = Call("getCachedStreamUrl", videoId, Null)
  /\ ret' = getCachedStreamUrl(videoId)
  /\ UNCHANGED <<variant, now, videoInfoCache, pendingStreamRequests,
                 pendingInfoRequests, lruVars, req, sent>>

CallSetCachedVideoInfo(videoId, info) ==
  /\ videoInfoCache' = setCachedVideoInfo(videoId, info)
  /\ arg' = Call("setCachedVideoInfo", videoId, info)
  /\ ret' = Null
  /\ UNCHANGED <<variant, now, streamUrlCache, pendingStreamRequests,
                 pendingInfoRequests, lruVars, req, sent>>

CallGetCachedVideoInfo(videoId) ==
  /\ videoInfoCache' = getCachedVideoInfoEffect(videoId)
  /\ arg' = Call("getCachedVideoInfo", videoId, Null)
  /\ ret' = getCachedVideoInfo(videoId)
  /\ UNCHANGED <<variant, now, streamUrlCache, pendingStreamRequests,
                 pendingInfoRequests, lruVars, req, sent>>

\* time passes between two calls
CacheTick ==
  /\ Tick(CacheHorizon)
  /\ arg' = Call("none", "", Null)
  /\ ret' = Null

NextCache ==
  \/ \E videoId \in Ids, url \in Urls : CallSetCachedStreamUrl(videoId, url)
  \/ \E videoId \in Ids : CallGetCachedStreamUrl(videoId)
  \/ \E videoId \in CacheInfoIds, info \in CacheInfos : CallSetCachedVideoInfo(videoId, info)
  \/ \E videoId \in CacheInfoIds : CallGetCachedVideoInfo(videoId)
  \/ CacheTick

InitCache ==
  InitServer /\ variant = "map" /\ arg = Call("none", "", Null) /\ ret = Null

SpecCache == InitCache /\ [][NextCache]_vars

\* The LRU build while time passes: stream requests (GET and HEAD), their
\* extractions, the clock.
ServerTick == Tick(MaxTime) /\ UNCHANGED pureVars

NextLruTimed ==
  \/ \E r \in Reqs, videoId \in Ids : LruGetStream(r, videoId)
  \/ \E r \in Reqs, videoId \in Ids : LruHeadStream(r, videoId)
  \/ \E r \in Reqs : LruTimerFires(r)
  \/ \E l \in Reqs, formats \in GetAllFormatsResults : LruFormatsDone(l, formats)
  \/ \E l \in Reqs, got \in FallbackResults : LruFallbackDone(l, got)
  \/ \E r \in Reqs : LruFetchRejects(r)
  \/ ServerTick

SpecLruTimed == InitLru /\ [][NextLruTimed]_vars

\* The header handling of the part_000 relay as a function: arg is an inbound
\* Range header with an upstream response, ret what the handler sends upstream
\* and to the client.  "" stands for a header that is absent or empty.
RangeHeaders == {"", "bytes=0-", "bytes=100-199"}
UpstreamStatuses == {200, 206, 403, 416}
UpstreamHeaderSets ==
  {Hdrs(ct, cl, cr, ar, cc, etag) :
     ct \in {"", "audio/webm"}, cl \in {"", "1000"}, cr \in {"", "bytes 100-199/1000"},
     ar \in {"", "none"}, cc \in {"", "private"}, etag \in {"", "e1"}}

InitHeaders ==
  /\ InitServer /\ variant = "map"
  /\ arg \in {[range |-> range, upstream |-> [status |-> status, hasBody |-> TRUE,
                                              headers |-> headers]] :
               range \in RangeHeaders, status \in UpstreamStatuses,
               headers \in UpstreamHeaderSets}
  /\ ret = [done |-> FALSE]

\* the handler from the Range test to the last setHeader
Relay ==
  /\ ~ret.done
  /\ ret' = [done |-> TRUE,
             request |-> upstreamRequestHeaders(arg.range),
             status |-> relayStatus(arg.upstream),
             headers |-> relayHeaders(arg.upstream)]
  /\ UNCHANGED <<variant, now, mapVars, lruVars, req, sent, arg>>

NextHeaders == Relay

SpecHeaders == InitHeaders /\ [][NextHeaders]_vars

\* The response handling of proxyStream as a function: arg is an inbound Range
\* header, the path the handler took to the stream URL ("hit": served from the
\* cache, no header set yet; "miss": resolved, headers set ahead) and an
\* upstream response; ret what proxyStream sends upstream and to the client.
ProxyPaths == {"hit", "miss"}

InitProxyHeaders ==
  /\ InitServer /\ variant = "lru"
  /\ arg \in {[range |-> range, path |-> path,
               upstream |-> [status |-> status, hasBody |-> TRUE, headers |-> headers]] :
               range \in RangeHeaders, path \in ProxyPaths, status \in UpstreamStatuses,
               headers \in UpstreamHeaderSets}
  /\ ret = [done |-> FALSE]

Proxy ==
  /\ ~ret.done
  /\ LET prior == IF arg.path = "miss" THEN OptimisticHeaders ELSE NoHeaders
         out == proxyResponse(prior, arg.upstream)
     IN ret' = [done |-> TRUE,
                request |-> proxyRequestHeaders(arg.range),
                status |-> out.status, body |-> out.body, headers |-> out.headers]
  /\ UNCHANGED <<variant, now, mapVars, lruVars, req, sent, arg>>

NextProxyHeaders == Proxy

SpecProxyHeaders == InitProxyHeaders /\ [][NextProxyHeaders]_vars

\* Relay side of index_20260113173543.js: stream requests, upstream responses,
\* client disconnects.
NextProxy ==
  \/ \E r \in Reqs, videoId \in Ids : LruGetStream(r, videoId)
  \/ \E l \in Reqs, formats \in GetAllFormatsResults : LruFormatsDone(l, formats)
  \/ \E l \in Reqs, got \in FallbackResults : LruFallbackDone(l, got)
  \/ \E r \in Reqs, upstream \in UpstreamResponses : LruUpstreamResponds(r, upstream)
  \/ \E r \in Reqs : LruFetchRejects(r)
  \/ \E r \in Reqs : LruClientClose(r)
  \/ \E r \in Reqs : LruStreamEnds(r)
  \/ \E r \in Reqs : LruStreamFails(r)

\* the relays of the two builds
NextRelays == NextRelay \/ NextProxy

SpecRelays == Init /\ [][NextRelays]_vars

\* ------------------------- index_20260113152741.js: pickAudioFormat
\* A format of ytdl-core with the fields pickAudioFormat reads besides those
\* of Fmt.  "" stands for an absent string, 0 for an absent number.
YtdlFmt(url, mimeType, hasVideo, hasAudio, audioBitrate, bitrate, isHLS, isDashMPD, contentLength) ==
  [url |-> url, mimeType |-> mimeType, hasVideo |-> hasVideo, hasAudio |-> hasAudio,
   audioBitrate |-> audioBitrate, bitrate |-> bitrate, isHLS |-> isHLS,
   isDashMPD |-> isDashMPD, contentLength |-> contentLength]

NoYtdlFmt == YtdlFmt("", "", FALSE, FALSE, 0, 0, FALSE, FALSE, "")

\* Number(f.audioBitrate ?? f.bitrate ?? 0) || 0
sortBitrate(f) == IF f.audioBitrate # 0 THEN f.audioBitrate ELSE f.bitrate

\* audioFormats.filter((f) => !f.isHLS && !f.isDashMPD)
nonSegmented(audioFormats) ==
  SelectSeq(audioFormats, LAMBDA f : ~f.isHLS /\ ~f.isDashMPD)

\* a selection that does not narrow the audio-only formats
preferredPool_All(audioFormats) == audioFormats

\* withLength, else nonSegmented, else audioFormats
preferredPool(audioFormats) ==
  LET withLength == SelectSeq(nonSegmented(audioFormats), LAMBDA f : Truthy(f.contentLength))
  IN IF Len(withLength) > 0 THEN withLength
     ELSE IF Len(nonSegmented(audioFormats)) > 0 THEN nonSegmented(audioFormats)
     ELSE audioFormats

\* String(f.mimeType ?? "").startsWith("audio/mp4")
isMp4Audio(f) == f.mimeType \in {"audio/mp4", "audio/mp4; codecs=\"mp4a.40.2\""}

\* pool.slice().sort((a, b) => bitrate(b) - bitrate(a))[0]: the sort is stable,
\* so the first format of highest bitrate
RECURSIVE firstBestBitrate(_, _, _)
firstBestBitrate(pool, i, best) ==
  IF i > Len(pool) THEN best
  ELSE firstBestBitrate(pool, i + 1,
         IF sortBitrate(pool[i]) > sortBitrate(best) THEN pool[i] ELSE best)

\* pickAudioFormat(formats): the format it returns or the error it throws
pickAudioFormat(formats) ==
  IF Len(formats) = 0 THEN [ok |-> FALSE, format |-> NoYtdlFmt, err |-> "No formats available"]
  ELSE LET audioFormats == filterFormatsAudioOnly(formats) IN
       IF Len(audioFormats) = 0
       THEN [ok |-> FALSE, format |-> NoYtdlFmt, err |-> "No audio-only formats found"]
       ELSE LET mp4Audio == SelectSeq(preferredPool(audioFormats), isMp4Audio)
                pool == IF Len(mp4Audio) > 0 THEN mp4Audio ELSE preferredPool(audioFormats)
            IN [ok |-> TRUE, format |-> firstBestBitrate(pool, 1, pool[1]), err |-> ""]

\* The two format selections of the ytdl-core builds as functions: arg is the
\* list info.formats, ret the selection of pickAudioFormat or the outcome of
\* the body of fetchStreamUrl (part_000).
YtdlFormats ==
  { YtdlFmt("v18", "video/mp4", TRUE, TRUE, 96, 500, FALSE, FALSE, "9000"),
    YtdlFmt("m128", "audio/mp4", FALSE, TRUE, 128, 130, FALSE, FALSE, "1000"),
    YtdlFmt("w256", "audio/webm", FALSE, TRUE, 256, 260, FALSE, FALSE, "2000"),
    YtdlFmt("m128n", "audio/mp4; codecs=\"mp4a.40.2\"", FALSE, TRUE, 128, 130, FALSE, FALSE, ""),
    YtdlFmt("w256n", "audio/webm", FALSE, TRUE, 256, 260, FALSE, FALSE, ""),
    YtdlFmt("m256d", "audio/mp4", FALSE, TRUE, 256, 260, FALSE, TRUE, ""),
    YtdlFmt("w320h", "audio/webm", FALSE, TRUE, 320, 330, TRUE, FALSE, "3000"),
    YtdlFmt("w160b", "audio/webm", FALSE, TRUE, 0, 160, FALSE, FALSE, "1500"),
    YtdlFmt("", "audio/mp4", FALSE, TRUE, 320, 330, FALSE, FALSE, "4000") }

RECURSIVE Lists(_, _)
Lists(S, n) ==
  IF n = 0 THEN {<<>>}
  ELSE Lists(S, n - 1) \cup {Append(l, x) : l \in {m \in Lists(S, n - 1) : Len(m) = n - 1}, x \in S}

InitFormats ==
  /\ InitServer /\ variant = "map"
  /\ arg \in {[formats |-> l] : l \in Lists(YtdlFormats, MaxFormats)}
  /\ ret = [done |-> FALSE]

PickAudioFormat ==
  /\ ~ret.done
  /\ ret' = [done |-> TRUE, fn |-> "pickAudioFormat", out |-> pickAudioFormat(arg.formats)]
  /\ UNCHANGED <<variant, now, mapVars, lruVars, req, sent, arg>>

ResolveStreamUrl ==
  /\ ~ret.done
  /\ ret' = [done |-> TRUE, fn |-> "fetchStreamUrl",
             out |-> resolveStreamUrl([ok |-> TRUE, err |-> "", formats |-> arg.formats])]
  /\ UNCHANGED <<variant, now, mapVars, lruVars, req, sent, arg>>

NextFormats == PickAudioFormat \/ ResolveStreamUrl

SpecFormats == InitFormats /\ [][NextFormats]_vars

\* ---------------- index_20260113173543.js: the resolution as a function
\* What `yt-dlp -f "bestaudio[ext=m4a]/bestaudio/best" -g` prints for a video
\* with the given formats: the URL of the best audio-only m4a format, else of
\* the best audio-only format, else of the best format with video and audio;
\* it fails when the video has none of them.
ytAudioOnly(f) == f.vcodec = "none" /\ f.acodec # "none"

RECURSIVE lastBestAbr(_, _, _)
lastBestAbr(fs, i, best) ==
  IF i > Len(fs) THEN best
  ELSE lastBestAbr(fs, i + 1, IF fs[i].abr >= best.abr THEN fs[i] ELSE best)

ytDlpGetUrl(formats) ==
  LET m4a == SelectSeq(formats, LAMBDA f : ytAudioOnly(f) /\ f.ext = "m4a")
      audio == SelectSeq(formats, ytAudioOnly)
      both == SelectSeq(formats, LAMBDA f : f.vcodec # "none" /\ f.acodec # "none")
      pool == IF Len(m4a) > 0 THEN m4a ELSE IF Len(audio) > 0 THEN audio ELSE both
  IN IF Len(pool) = 0
     THEN [ok |-> FALSE, err |-> "ERROR: Requested format is not available", stdout |-> <<>>]
     ELSE [ok |-> TRUE, err |-> "", stdout |-> <<lastBestAbr(pool, 1, pool[1]).url>>]

\* the try block of getStreamUrl: METHOD 1, then METHOD 2
resolveLruStreamUrl(formats, dumped) ==
  LET first == resolveFromFormats(IF dumped THEN formats ELSE <<>>)
  IN IF first.set THEN first ELSE resolveFromFallback(ytDlpGetUrl(formats))

\* arg is the list of formats yt-dlp finds for a video and whether its
\* --dump-json run succeeds; ret the selection of selectFastestAudioFormat or
\* the outcome of getStreamUrl with the value left in the cache.
YtFormats ==
  { YtFmt("a128", "none", "mp4a", 3, "", "m4a", 128, "https"),
    YtFmt("a128seg", "none", "mp4a", 3, "", "m4a", 128, "http_dash_segments"),
    YtFmt("a160big", "none", "mp4a", 40, "", "m4a", 160, "https"),
    YtFmt("w160", "none", "opus", 3, "", "webm", 160, "https"),
    YtFmt("a128nosize", "none", "mp4a", 0, "", "m4a", 128, "https"),
    YtFmt("v18", "avc1", "mp4a", 30, "", "mp4", 96, "https"),
    YtFmt("v137", "avc1", "none", 45, "", "mp4", 0, "https") }

InitYtFormats ==
  /\ InitServer /\ variant = "lru"
  /\ arg \in {[formats |-> l, dumped |-> d] :
               l \in Lists(YtFormats, MaxFormats), d \in BOOLEAN}
  /\ ret = [done |-> FALSE]

SelectFastest ==
  /\ ~ret.done /\ arg.dumped
  /\ ret' = [done |-> TRUE, fn |-> "selectFastestAudioFormat",
             out |-> selectFastestAudioFormat(arg.formats)]
  /\ UNCHANGED <<variant, now, mapVars, lruVars, req, sent, arg>>

GetStreamUrl ==
  /\ ~ret.done
  /\ LET out == resolveLruStreamUrl(arg.formats, arg.dumped)
     IN ret' = [done |-> TRUE, fn |-> "getStreamUrl", out |-> out,
                cached |-> IF out.ok THEN out.url ELSE ""]
  /\ UNCHANGED <<variant, now, mapVars, lruVars, req, sent, arg>>

NextYtFormats == SelectFastest \/ GetStreamUrl

SpecYtFormats == InitYtFormats /\ [][NextYtFormats]_vars

\* ------------------------------------------- part_000: normalizeVideoId
\* Strings are strings; Char(s, i) is the i-th character.
Char(s, i) == SubSeq(s, i, i)

CharsOf(s) == {Char(s, i) : i \in 1..Len(s)}

\* the character class [a-zA-Z0-9_-]
IdChars == CharsOf("abcdefghijklmnopqrstuvwxyzABCDEFGHIJKLMNOPQRSTUVWXYZ0123456789_-")

\* a test that takes any string of identifier characters, whatever its length
matchesId_AnyLength(s) == Len(s) > 0 /\ \A i \in 1..Len(s) : Char(s, i) \in IdChars

\* /^[a-zA-Z0-9_-]{11}$/ matches s
matchesId(s) == Len(s) = 11 /\ \A i \in 1..Len(s) : Char(s, i) \in IdChars

\* String.prototype.trim, for the blank as the white space
RECURSIVE trim(_)
trim(s) ==
  IF Len(s) = 0 THEN s
  ELSE IF Char(s, 1) = " " THEN trim(SubSeq(s, 2, Len(s)))
  ELSE IF Char(s, Len(s)) = " " THEN trim(SubSeq(s, 1, Len(s) - 1))
  ELSE s

\* position of the first character of s from position `from` on that is in
\* chars; Len(s) + 1 when there is none
indexOfAny(s, chars, from) ==
  LET I == {i \in from..Len(s) : Char(s, i) \in chars}
  IN IF I = {} THEN Len(s) + 1 ELSE CHOOSE i \in I : \A j \in I : i <= j

\* s.split(c).filter(Boolean)
RECURSIVE splitNonEmpty(_, _)
splitNonEmpty(s, c) ==
  IF Len(s) = 0 THEN <<>>
  ELSE LET k == indexOfAny(s, {c}, 1)
           rest == IF k >= Len(s) THEN <<>> ELSE splitNonEmpty(SubSeq(s, k + 1, Len(s)), c)
       IN IF k = 1 THEN rest ELSE <<SubSeq(s, 1, k - 1)>> \o rest

RECURSIVE dropSlashes(_)
dropSlashes(s) ==
  IF Len(s) > 0 /\ Char(s, 1) = "/" THEN dropSlashes(SubSeq(s, 2, Len(s))) ELSE s

\* new URL(input) without a base, for inputs without percent escapes, "+",
\* credentials and ports: the scheme up to the first ":", then for http and
\* https the host after any number of slashes (an empty host is invalid), for
\* another scheme the host after "//" or an opaque path; the path up to "?" or
\* "#", the query up to "#".  ok = FALSE: the constructor throws.
InvalidUrl == [ok |-> FALSE, pathname |-> "", search |-> ""]

parseUrl(input) ==
  LET colon == indexOfAny(input, {":"}, 1)
      scheme == SubSeq(input, 1, colon - 1)
      special == scheme \in {"http", "https"}
      after == SubSeq(input, colon + 1, Len(input))
      hasAuthority == special \/ (Len(after) >= 2 /\ SubSeq(after, 1, 2) = "//")
      fromHost == IF special THEN dropSlashes(after)
                  ELSE IF hasAuthority THEN SubSeq(after, 3, Len(after)) ELSE after
      hostEnd == IF hasAuthority THEN indexOfAny(fromHost, {"/", "?", "#"}, 1) ELSE 1
      pathEnd == indexOfAny(fromHost, {"?", "#"}, hostEnd)
      searchEnd == indexOfAny(fromHost, {"#"}, pathEnd)
      path == SubSeq(fromHost, hostEnd, pathEnd - 1)
  IN IF colon > Len(input) \/ colon = 1 THEN InvalidUrl
     ELSE IF Char(scheme, 1) \notin CharsOf("abcdefghijklmnopqrstuvwxyzABCDEFGHIJKLMNOPQRSTUVWXYZ")
       THEN InvalidUrl
     ELSE IF \E i \in 1..Len(scheme) : Char(scheme, i) \notin IdChars \ {"_"} THEN InvalidUrl
     ELSE IF special /\ hostEnd = 1 THEN InvalidUrl
     ELSE [ok |-> TRUE,
           pathname |-> IF special /\ path = "" THEN "/" ELSE path,
           search |-> SubSeq(fromHost, pathEnd + 1, searchEnd - 1)]

\* url.searchParams.get(name): the value of the first pair of that name, ""
\* when there is none
RECURSIVE searchParam(_, _)
searchParam(pairs, name) ==
  IF Len(pairs) = 0 THEN ""
  ELSE LET pair == Head(pairs)
           eq == indexOfAny(pair, {"="}, 1)
       IN IF SubSeq(pair, 1, eq - 1) = name THEN SubSeq(pair, eq + 1, Len(pair))
          ELSE searchParam(Tail(pairs), name)

\* normalizeVideoId(videoIdOrUrl): valid = FALSE stands for null
NoVideoId == [valid |-> FALSE, id |-> ""]

VideoId(id) == [valid |-> TRUE, id |-> id]

\* a candidate taken from the path whatever its first segment is
pathCandidate_AnyFirst(parts) == IF Len(parts) > 0 THEN parts[Len(parts)] ELSE ""

\* `parts[0] === "watch" ? null : parts[parts.length - 1]`; "" stands for null
\* and for the undefined of an empty path
pathCandidate(parts) ==
  IF Len(parts) > 0 /\ parts[1] # "watch" THEN parts[Len(parts)] ELSE ""

normalizeVideoId(videoIdOrUrl) ==
  IF videoIdOrUrl = "" THEN NoVideoId
  ELSE LET input == trim(videoIdOrUrl)
           url == parseUrl(input)
           v == searchParam(splitNonEmpty(url.search, "&"), "v")
           parts == splitNonEmpty(url.pathname, "/")
       IN IF matchesId(input) THEN VideoId(input)
          ELSE IF ~url.ok THEN NoVideoId
          ELSE IF Truthy(v) /\ matchesId(v) THEN VideoId(v)
          ELSE IF Truthy(pathCandidate(parts)) /\ matchesId(pathCandidate(parts))
            THEN VideoId(pathCandidate(parts))
          ELSE NoVideoId

\* arg is a path parameter, ret what normalizeVideoId makes of it and then of
\* its own result.
VideoIdSamples ==
  {"dQw4w9WgXcQ", "abcdefghijk", "lmnopqrstuv", "wxyzABCDEFG", "HIJKLMNOPQR",
   "STUVWXYZ012", "3456789_-aA", "-----------", "___________", "00000000000"}

NotVideoIds == {"", "http://", "12345", "https://", "dQw4w9WgXc", "dQw4w9WgXcQQ", "dQw4w9WgXc!",
                "dQw4w9 gXcQ", "watch", "y/watch"}

PathParams ==
  NotVideoIds
  \cup {pre \o id \o post :
         pre \in {"", " ", "https://y/watch?v=", "https://y/embed/", "https://youtu.be/",
                  "https://y/watch/", "https://y/watch?t=10&v=", "y/watch?v=", "x:",
                  "https://y/a?v=dQw4w9WgXc&v=", "https://y/embed/abcdefghijk?v=",
                  "https://y/watch/abcdefghijk?v=", "https://y/a/b/"},
         id \in VideoIdSamples \cup {"dQw4w9WgXc", "dQw4w9WgXc!"},
         post \in {"", "?t=10", "#t", "/"}}

InitNormalize ==
  /\ InitServer /\ variant = "map"
  /\ arg \in PathParams
  /\ ret = [done |-> FALSE]

Normalize ==
  /\ ~ret.done
  /\ ret' = [done |-> TRUE, again |-> FALSE, first |-> normalizeVideoId(arg),
             second |-> NoVideoId]
  /\ UNCHANGED <<variant, now, mapVars, lruVars, req, sent, arg>>

NormalizeAgain ==
  /\ ret.done /\ ~ret.again /\ ret.first.valid
  /\ ret' = [ret EXCEPT !.again = TRUE, !.second = normalizeVideoId(ret.first.id)]
  /\ UNCHANGED <<variant, now, mapVars, lruVars, req, sent, arg>>

NextNormalize == Normalize \/ NormalizeAgain

SpecNormalize == InitNormalize /\ [][NextNormalize]_vars

\* --------------------------- part_000: the handlers from the path parameter
\* a handler that never rejects its parameter
rejects_Never(param) == FALSE

\* `if (!videoId)` after `const videoId = normalizeVideoId(req.params.videoId)`
rejects(param) == ~normalizeVideoId(param).valid

\* The 400 answer of a handler: a JSON body with the parameter for GET,
\* `res.status(400).end()` for HEAD.  The handler returns at once.
Reject(r, kind, param) ==
  /\ variant = "map"
  /\ Arrives(r)
  /\ sent' = {Event(r, NewReq(kind, param), NoOutcome, 400,
                    IF kind = "HEAD_stream" THEN "empty" ELSE "json", NoHeaders)}
  /\ UNCHANGED <<variant, mapVars, lruVars, pureVars, now, req>>

ParamGetStream(r, param) ==
  IF rejects(param) THEN Reject(r, "GET_stream", param)
  ELSE GetStream(r, normalizeVideoId(param).id)

ParamHeadStream(r, param) ==
  IF rejects(param) THEN Reject(r, "HEAD_stream", param)
  ELSE HeadStream(r, normalizeVideoId(param).id)

ParamGetInfo(r, param) ==
  IF rejects(param) THEN Reject(r, "GET_info", param)
  ELSE GetInfo(r, normalizeVideoId(param).id)

\* path parameters of the requests: an identifier in two forms, and
\* parameters normalizeVideoId rejects
RequestParams == {"dQw4w9WgXcQ", "https://y/watch?v=dQw4w9WgXcQ", "12345", "dQw4w9WgXc!"}

NextParams ==
  \/ \E r \in Reqs, param \in RequestParams : ParamGetStream(r, param)
  \/ \E r \in Reqs, param \in RequestParams : ParamHeadStream(r, param)
  \/ \E r \in Reqs, param \in RequestParams : ParamGetInfo(r, param)
  \/ \E l \in Reqs, got \in RelayGetInfoResults : StreamExtractionDone(l, got)
  \/ \E l \in Reqs, got \in GetBasicInfoResults : InfoExtractionDone(l, got)
  \/ \E r \in Reqs : FetchRejects(r)

SpecParams == InitMap /\ [][NextParams]_vars

\* ------------------- part_000: the life of a cache entry (one identifier)
NextMapCache ==
  \/ \E r \in Reqs : GetStream(r, "idA")
  \/ \E r \in Reqs : HeadStream(r, "idA")
  \/ \E r \in Reqs : GetInfo(r, "idA")
  \/ \E l \in Reqs, got \in GetInfoResults : StreamExtractionDone(l, got)
  \/ \E l \in Reqs, got \in GetBasicInfoResults : InfoExtractionDone(l, got)
  \/ \E r \in Reqs : FetchRejects(r)
  \/ Sweep
  \/ ClearCache
  \/ ServerTick

SpecMapCache == InitMap /\ [][NextMapCache]_vars

\* ------------- part_000: the periodic cleanup over the life of both caches
NextSweep ==
  \/ \E r \in Reqs : GetStream(r, "idA")
  \/ \E r \in Reqs : GetInfo(r, "idA")
  \/ \E l \in Reqs, got \in RelayGetInfoResults : StreamExtractionDone(l, got)
  \/ \E l \in Reqs, got \in GetBasicInfoResults : InfoExtractionDone(l, got)
  \/ \E r \in Reqs : FetchRejects(r)
  \/ Sweep
  \/ Tick(CacheHorizon) /\ UNCHANGED pureVars

SpecSweep == InitMap /\ [][NextSweep]_vars

\* ------------ index_20260113173543.js: every caller of getStreamUrl
\* `if (!streamUrlCache.has(videoId)) getStreamUrl(videoId).catch(() => {})`:
\* the background call of the search pre-warm and of the popular-videos timer
warmUp(r, videoId) ==
  /\ variant = "lru"
  /\ Arrives(r)
  /\ ~lruHas(lruStreamUrlCache, videoId, streamUrlCacheTtl)
  /\ getStreamUrlEnter(r, NewReq("warm", videoId))
  /\ UNCHANGED <<variant, mapVars, pureVars, now, lruVideoInfoCache>>

\* trendingIds of warmCacheForPopularVideos
trendingIds == {"dQw4w9WgXcQ", "kJQP7kiw5Fk", "09R8_2nJtjg"}

\* the timer of warmCacheForPopularVideos reaches one of its identifiers
LruPopularWarm(r, videoId) == videoId \in trendingIds /\ warmUp(r, videoId)

\* videoId of the items the search collaborator returns (Null: an item
\* without videoId)
SearchVideoIds == {"kJQP7kiw5Fk", Null}

\* the timer of GET /api/search reaches one of the first three items of the
\* response; item.videoId is what the search collaborator returned
LruSearchWarm(r, videoId) == videoId \in SearchVideoIds /\ warmUp(r, videoId)

\* the 400 of the handlers of this build
LruReject(r, kind, param) ==
  /\ variant = "lru"
  /\ Arrives(r)
  /\ sent' = {Event(r, NewReq(kind, param), NoOutcome, 400,
                    IF kind = "HEAD_stream" THEN "empty" ELSE "json", NoHeaders)}
  /\ UNCHANGED <<variant, mapVars, lruVars, pureVars, now, req>>

LruParamGetStream(r, param) ==
  IF rejects(param) THEN LruReject(r, "GET_stream", param)
  ELSE LruGetStream(r, normalizeVideoId(param).id)

LruParamHeadStream(r, param) ==
  IF rejects(param) THEN LruReject(r, "HEAD_stream", param)
  ELSE LruHeadStream(r, normalizeVideoId(param).id)

NextWarm ==
  \/ \E r \in Reqs, param \in RequestParams : LruParamGetStream(r, param)
  \/ \E r \in Reqs, param \in RequestParams : LruParamHeadStream(r, param)
  \/ \E r \in Reqs : LruTimerFires(r)
  \/ \E r \in Reqs, videoId \in trendingIds : LruPopularWarm(r, videoId)
  \/ \E r \in Reqs, videoId \in SearchVideoIds : LruSearchWarm(r, videoId)
  \/ \E l \in Reqs, formats \in GetAllFormatsResults : LruFormatsDone(l, formats)
  \/ \E l \in Reqs, got \in FallbackResults : LruFallbackDone(l, got)
  \/ \E r \in Reqs : LruFetchRejects(r)

SpecWarm == InitLru /\ [][NextWarm]_vars

\* -------------------------------------- HEAD and GET of a stream, both builds
NextHead ==
  \/ \E r \in Reqs, videoId \in Ids : GetStream(r, videoId)
  \/ \E r \in Reqs, videoId \in Ids : HeadStream(r, videoId)
  \/ \E l \in Reqs, got \in GetInfoResults : StreamExtractionDone(l, got)
  \/ \E r \in Reqs : FetchRejects(r)
  \/ \E r \in Reqs, videoId \in Ids : LruGetStream(r, videoId)
  \/ \E r \in Reqs, videoId \in Ids : LruHeadStream(r, videoId)
  \/ \E r \in Reqs : LruTimerFires(r)
  \/ \E l \in Reqs, formats \in GetAllFormatsResults : LruFormatsDone(l, formats)
  \/ \E l \in Reqs, got \in FallbackResults : LruFallbackDone(l, got)
  \/ \E r \in Reqs : LruFetchRejects(r)

SpecHead == Init /\ [][NextHead]_vars

\* ------------------------------- part_000: the error handlers of the relay
\* An error object: name and code ("" when it has none).
JsError(name, code) == [name |-> name, code |-> code]
AbortError == JsError("AbortError", "")
PrematureClose == JsError("Error", "ERR_STREAM_PREMATURE_CLOSE")
ConnectionReset == JsError("Error", "ECONNRESET")
FetchFailed == JsError("TypeError", "")
Terminated == JsError("TypeError", "UND_ERR_SOCKET")

\* a test that does not know the connection reset
clientGone_NoReset(aborted, reqAborted, resDestroyed, err) ==
  \/ aborted
  \/ reqAborted
  \/ resDestroyed
  \/ err.name = "AbortError"
  \/ err.code = "ERR_STREAM_PREMATURE_CLOSE"

\* The test of the "error" listener of the body stream and of the pipeline
\* callback: abortController.signal.aborted || req.aborted || res.destroyed ||
\* err?.name === "AbortError" || err?.code === "ERR_STREAM_PREMATURE_CLOSE"
\* || err?.code === "ECONNRESET"
clientGone(aborted, reqAborted, resDestroyed, err) ==
  \/ aborted
  \/ reqAborted
  \/ resDestroyed
  \/ err.name = "AbortError"
  \/ err.code = "ERR_STREAM_PREMATURE_CLOSE"
  \/ err.code = "ECONNRESET"

\* What each error handler of GET /api/stream/:videoId does, as the set of
\* its effects: the catch block, the "error" listener of the body stream, the
\* pipeline callback.
relayErrorEffects(stage, aborted, reqAborted, resDestroyed, headersSent, err) ==
  CASE stage = "catch" ->
         IF err.name = "AbortError" THEN {}
         ELSE {"logError"} \cup (IF headersSent THEN {} ELSE {"json"})
    [] stage = "bodyStream.error" ->
         IF clientGone(aborted, reqAborted, resDestroyed, err) THEN {}
         ELSE {"logError", "res.destroy"}
    [] stage = "pipeline" ->
         IF clientGone(aborted, reqAborted, resDestroyed, err) THEN {}
         ELSE {"logError"}

\* The errors that reach the handlers.  The catch block receives what `await
\* fetch` rejects with: the AbortError exactly when the close listener has
\* aborted the signal, else a failure of the upstream connection.  The
\* listeners of the running relay receive any error under any state of the
\* three flags.
RelayErrors ==
  {[stage |-> "catch", aborted |-> a, reqAborted |-> a, resDestroyed |-> a,
    headersSent |-> FALSE, err |-> e] :
     a \in BOOLEAN, e \in {AbortError, FetchFailed, Terminated}}
  \cup [stage : {"bodyStream.error", "pipeline"}, aborted : BOOLEAN, reqAborted : BOOLEAN,
        resDestroyed : BOOLEAN, headersSent : {TRUE},
        err : {AbortError, PrematureClose, ConnectionReset, Terminated}]

InitRelayErrors ==
  /\ InitServer
  /\ variant = "map"
  /\ arg \in {x \in RelayErrors : x.stage = "catch" => (x.aborted <=> x.err = AbortError)}
  /\ ret = [done |-> FALSE]

RelayError ==
  /\ ~ret.done
  /\ ret' = [done |-> TRUE,
             effects |-> relayErrorEffects(arg.stage, arg.aborted, arg.reqAborted,
                                           arg.resDestroyed, arg.headersSent, arg.err)]
  /\ UNCHANGED <<variant, mapVars, lruVars, now, req, sent, arg>>

NextRelayErrors == RelayError

SpecRelayErrors == InitRelayErrors /\ [][NextRelayErrors]_vars

\* -------------------------------------------------------- GET /api/search
\* parseInt(string): leading white space, an optional sign, then the longest
\* run of decimal digits; NaN when there is no digit.  undefined gives NaN.
NaN == [nan |-> TRUE, n |-> 0]
Num(n) == [nan |-> FALSE, n |-> n]
Digits == "0123456789"
digitValue(c) == CHOOSE d \in 0..9 : Char(Digits, d + 1) = c

RECURSIVE digitsValue(_, _, _)
digitsValue(str, i, acc) ==
  IF i > Len(str) \/ Char(str, i) \notin CharsOf(Digits) THEN acc
  ELSE digitsValue(str, i + 1, acc * 10 + digitValue(Char(str, i)))

parseInt(present, value) ==
  IF ~present THEN NaN
  ELSE LET str == trim(value)
           signed == Len(str) > 0 /\ Char(str, 1) \in {"-", "+"}
           first == IF signed THEN 2 ELSE 1
       IN IF first > Len(str) \/ Char(str, first) \notin CharsOf(Digits) THEN NaN
          ELSE Num((IF signed /\ Char(str, 1) = "-" THEN -1 ELSE 1)
                     * digitsValue(str, first, 0))

\* Array.prototype.slice(0, end)
slice0(array, end) ==
  LET n == Len(array)
      to == IF end < 0 THEN (IF n + end < 0 THEN 0 ELSE n + end)
            ELSE IF end > n THEN n ELSE end
  IN SubSeq(array, 1, to)

\* `Math.min(parseInt(req.query.limit) || 10, 20)`; the handler of
\* src/api/[...path].js reads no limit and slices at 10
searchLimit(build, query) ==
  IF build = "api" THEN 10
  ELSE LET parsed == parseInt(query.hasLimit, query.limit)
           limit == IF parsed.nan \/ parsed.n = 0 THEN 10 ELSE parsed.n
       IN IF limit < 20 THEN limit ELSE 20

\* `.filter((v) => v?.videoId)` of src/api/[...path].js; the other handler
\* does not filter
searchFilter(build, videos) ==
  IF build = "api" THEN SelectSeq(videos, LAMBDA v : Truthy(v.videoId)) ELSE videos

\* The handler: what it answers and whether it has called yts
searchResponse(build, query, videos) ==
  IF ~Truthy(trim(query.q)) THEN [called |-> FALSE, status |-> 200, items |-> <<>>]
  ELSE [called |-> TRUE, status |-> 200,
        items |-> slice0(searchFilter(build, videos), searchLimit(build, query))]

\* results of the search collaborator: n videos, all with an identifier or the
\* second one without
SearchResults ==
  {[i \in 1..n |-> [videoId |-> IF i = 2 /\ gap THEN "" ELSE "v", seconds |-> i]] :
     n \in 0..MaxVideos, gap \in BOOLEAN}

SearchQueries ==
  [q : {"", "  ", " song "}, hasLimit : {TRUE}, limit : {"0", "-3", "abc", "5", "15", "50"}]
  \cup [q : {"", "  ", " song "}, hasLimit : {FALSE}, limit : {""}]

InitSearch ==
  /\ InitServer
  /\ variant = "map"
  /\ arg \in [build : {"api", "lru"}, query : SearchQueries, videos : SearchResults]
  /\ ret = [done |-> FALSE]

Search ==
  /\ ~ret.done
  /\ ret' = [done |-> TRUE, response |-> searchResponse(arg.build, arg.query, arg.videos)]
  /\ UNCHANGED <<variant, mapVars, lruVars, now, req, sent, arg>>

NextSearch == Search

SpecSearch == InitSearch /\ [][NextSearch]_vars

\* ------------------- index_20260113144241.js: ranges of the stream handler
\* the match of /^bytes=(\d+)-(\d*)$/i: ok, and the two groups
NoMatch == [ok |-> FALSE, first |-> "", second |-> ""]
matchRange(str) ==
  LET dash == indexOfAny(str, {"-"}, 7)
      first == SubSeq(str, 7, dash - 1)
      second == SubSeq(str, dash + 1, Len(str))
  IN IF /\ Len(str) >= 8
        /\ \A i \in 1..5 : Char(str, i) \in {Char("bytes", i), Char("BYTES", i)}
        /\ Char(str, 6) = "="
        /\ dash <= Len(str)
        /\ Len(first) >= 1
        /\ \A i \in 1..Len(first) : Char(first, i) \in CharsOf(Digits)
        /\ \A i \in 1..Len(second) : Char(second, i) \in CharsOf(Digits)
     THEN [ok |-> TRUE, first |-> first, second |-> second]
     ELSE NoMatch

NoRange == [set |-> FALSE, start |-> 0, end |-> 0]

\* a parseRangeHeader that does not clamp the end
parseRangeHeader_NoClamp(rangeHeader, totalSize) ==
  LET match == matchRange(rangeHeader)
      start == digitsValue(match.first, 1, 0)
      end == IF Truthy(match.second) THEN digitsValue(match.second, 1, 0) ELSE totalSize - 1
  IN IF ~match.ok THEN NoRange
     ELSE IF start >= totalSize THEN NoRange
     ELSE IF end < start THEN NoRange
     ELSE [set |-> TRUE, start |-> start, end |-> end]

\* parseRangeHeader; NoRange stands for null.  The numbers of the model are
\* finite, so the Number.isFinite test never fails.
parseRangeHeader(rangeHeader, totalSize) ==
  LET match == matchRange(rangeHeader)
      start == digitsValue(match.first, 1, 0)
      end == IF Truthy(match.second) THEN digitsValue(match.second, 1, 0) ELSE totalSize - 1
      safeEnd == IF end < totalSize - 1 THEN end ELSE totalSize - 1
  IN IF ~match.ok THEN NoRange
     ELSE IF start >= totalSize THEN NoRange
     ELSE IF safeEnd < start THEN NoRange
     ELSE [set |-> TRUE, start |-> start, end |-> safeEnd]

\* What the stream handler sets before it pipes the download: status (200
\* when it sets none), Content-Range, Content-Length and the range it asks
\* ytdl.downloadFromInfo for.  totalSize 0 stands for an absent contentLength.
rangeResponse(rangeHeader, totalSize) ==
  LET range == IF Truthy(rangeHeader) /\ totalSize # 0
               THEN parseRangeHeader(rangeHeader, totalSize) ELSE NoRange
  IN IF range.set
     THEN [status |-> 206,
           contentRange |-> "bytes " \o ToString(range.start) \o "-" \o ToString(range.end)
                              \o "/" \o ToString(totalSize),
           contentLength |-> ToString(range.end - range.start + 1),
           range |-> range]
     ELSE [status |-> 200, contentRange |-> "",
           contentLength |-> IF totalSize # 0 THEN ToString(totalSize) ELSE "",
           range |-> NoRange]

\* values of the Range header: well-formed, open-ended, beyond the size,
\* reversed, suffix form, several ranges, other units, white space
RangeValues ==
  {"bytes=0-", "bytes=0-0", "bytes=3-3", "bytes=2-4", "BYTES=1-2", "bytes=5-2", "bytes=2-100",
   "bytes=7-", "bytes=100-199", "bytes=-5", "bytes=a-b", "bytes=1-2,4-5", "items=0-1",
   "bytes= 0-1", "bytes=1", ""}

InitRanges ==
  /\ InitServer
  /\ variant = "map"
  /\ arg \in [range : RangeValues, totalSize : 1..MaxTotal \cup {1000}]
  /\ ret = [done |-> FALSE]

RangeResponse ==
  /\ ~ret.done
  /\ ret' = [done |-> TRUE, response |-> rangeResponse(arg.range, arg.totalSize)]
  /\ UNCHANGED <<variant, mapVars, lruVars, now, req, sent, arg>>

NextRanges == RangeResponse

SpecRanges == InitRanges /\ [][NextRanges]_vars

\* ------------------------------------------------ part_001: the player App
\* The state of the component is kept in ret: playlist and currentSongIndex
\* (useState; playlistRef.current follows playlist after every render),
\* controllers: the AbortControllers of prefetchStreamUrl by slot, with the
\* video, signal.aborted and whether the fetch has yet to settle,
\* abortControllers: Map videoId -> controller, plays[v]: calls of
\* playNowFromResult(v) suspended at `await audioPlayer.current.play`,
\* infos[v]: background toSong(v) fetches in flight.  isPlaying, isLoading,
\* the error texts and the times never flow into these and are left out.
\* Indices are those of the code (from 0): playlist[i] is playlist[i + 1].
Controllers == 1..MaxPrefetch
FreeController == [videoId |-> "", aborted |-> FALSE, inFlight |-> FALSE]

optimisticSong(videoId) == [videoId |-> videoId, isOptimistic |-> TRUE]
queuedSong(videoId) == [videoId |-> videoId]
\* { ...fullSong, isOptimistic: false } of the answer of /api/info
fullSong(videoId) == [videoId |-> videoId, isOptimistic |-> FALSE]

SongIds(playlist) == {playlist[i].videoId : i \in 1..Len(playlist)}

InitialApp ==
  [playlist |-> <<>>, currentSongIndex |-> 0,
   controllers |-> [c \in Controllers |-> FreeController],
   abortControllers |-> EmptyMap,
   plays |-> [v \in Ids |-> 0], infos |-> [v \in Ids |-> 0]]

\* abortControllers.current.forEach(controller => controller.abort());
\* abortControllers.current.clear()
abortAll(ui) ==
  [ui EXCEPT
     !.controllers = [c \in Controllers |->
        IF \E v \in DOMAIN ui.abortControllers : ui.abortControllers[v] = c
        THEN [@[c] EXCEPT !.aborted = TRUE] ELSE @[c]],
     !.abortControllers = EmptyMap]

\* the controller `new AbortController()` creates: a slot not in use
newController(ui) == CHOOSE c \in Controllers :
  /\ ~ui.controllers[c].inFlight
  /\ \A d \in Controllers : ~ui.controllers[d].inFlight => c <= d

\* prefetchStreamUrl(videoId) up to the start of the HEAD request
prefetchStreamUrl(ui, videoId) ==
  LET c == newController(ui)
      has == videoId \in DOMAIN ui.abortControllers
  IN [ui EXCEPT
        !.controllers = [d \in Controllers |->
           IF d = c THEN [videoId |-> videoId, aborted |-> FALSE, inFlight |-> TRUE]
           ELSE IF has /\ ui.abortControllers[videoId] = d
                THEN [@[d] EXCEPT !.aborted = TRUE]
                ELSE @[d]],
        !.abortControllers = Put(@, videoId, c)]

\* .catch(() => {}).finally(() => abortControllers.current.delete(videoId)) of
\* the request of controller c, however it settled
prefetchSettled(ui, c) ==
  [ui EXCEPT
     !.controllers[c] = FreeController,
     !.abortControllers = Remove(@, ui.controllers[c].videoId)]

\* the updater of setCurrentSongIndex inside removeAtIndex
indexAfterRemove(index, prevIndex, nextLength) ==
  IF nextLength = 0 THEN 0
  ELSE IF index < prevIndex THEN (IF prevIndex - 1 > 0 THEN prevIndex - 1 ELSE 0)
  ELSE IF index > prevIndex THEN prevIndex
  ELSE IF prevIndex < nextLength - 1 THEN prevIndex ELSE nextLength - 1

\* prev.filter((_, i) => i !== index)
withoutIndex(prev, index) ==
  [i \in 1..(Len(prev) - 1) |-> IF i <= index THEN prev[i] ELSE prev[i + 1]]

PlayerStep(ui) ==
  /\ arg = "App"
  /\ ret' = ui
  /\ UNCHANGED <<variant, mapVars, lruVars, now, req, sent, arg>>

\* playNowFromResult(result) up to `await audioPlayer.current.play(streamUrl)`
PlayNowFromResult(videoId) ==
  /\ ret.plays[videoId] < MaxCalls
  /\ PlayerStep([abortAll(ret) EXCEPT !.playlist = <<optimisticSong(videoId)>>,
                                      !.currentSongIndex = 0,
                                      !.plays[videoId] = @ + 1])

\* playNowFromResult after the await: the audio plays and toSong is started,
\* or play rejected and the catch block empties the playlist
PlaySettled(videoId, ok) ==
  /\ arg = "App"
  /\ ret.plays[videoId] > 0
  /\ ok => ret.infos[videoId] < MaxCalls
  /\ PlayerStep(IF ok
                THEN [ret EXCEPT !.plays[videoId] = @ - 1, !.infos[videoId] = @ + 1]
                ELSE [ret EXCEPT !.plays[videoId] = @ - 1, !.playlist = <<>>])

\* the .then / .catch of the toSong(result.videoId) of playNowFromResult
InfoSettled(videoId, ok) ==
  /\ arg = "App"
  /\ ret.infos[videoId] > 0
  /\ PlayerStep(IF ok
                THEN [ret EXCEPT !.infos[videoId] = @ - 1,
                                 !.playlist = <<fullSong(videoId)>>]
                ELSE [ret EXCEPT !.infos[videoId] = @ - 1,
                                 !.playlist = [i \in 1..Len(@) |->
                                    IF @[i].videoId = videoId
                                    THEN [videoId |-> videoId, isOptimistic |-> FALSE]
                                    ELSE @[i]]])

\* addToQueueFromResult(result)
AddToQueueFromResult(videoId) ==
  /\ arg = "App"
  /\ Len(ret.playlist) < MaxQueue
  /\ \E c \in Controllers : ~ret.controllers[c].inFlight
  /\ PlayerStep(IF videoId \in SongIds(ret.playlist)
                THEN ret
                ELSE prefetchStreamUrl(
                       [ret EXCEPT !.playlist = Append(@, queuedSong(videoId))], videoId))

\* playAtIndex(index): the index is set before the await of the audio
PlayAtIndex(index) ==
  /\ arg = "App"
  /\ PlayerStep(IF index < 0 \/ index >= Len(ret.playlist)
                THEN ret
                ELSE [ret EXCEPT !.currentSongIndex = index])

\* removeAtIndex(index)
RemoveAtIndex(index) ==
  /\ arg = "App"
  /\ PlayerStep(IF index < 0 \/ index >= Len(ret.playlist)
                THEN ret
                ELSE [ret EXCEPT
                        !.playlist = withoutIndex(@, index),
                        !.currentSongIndex =
                           indexAfterRemove(index, @, Len(ret.playlist) - 1)])

\* clearQueue()
ClearQueue ==
  /\ arg = "App"
  /\ PlayerStep([abortAll(ret) EXCEPT !.playlist = <<>>, !.currentSongIndex = 0])

canPrev(ui) == ui.currentSongIndex > 0
canNext(ui) == ui.currentSongIndex < Len(ui.playlist) - 1

\* prevTrack()
PrevTrack ==
  /\ arg = "App"
  /\ canPrev(ret)
  /\ PlayAtIndex(ret.currentSongIndex - 1)

\* nextTrack(), from the button or the `ended` event
NextTrack ==
  /\ arg = "App"
  /\ canNext(ret)
  /\ PlayAtIndex(ret.currentSongIndex + 1)

\* handleResultHover(videoId), and the prefetch of the first results of
\* runSearch: prefetchStreamUrl on a video of the search results
HandleResultHover(videoId) ==
  /\ arg = "App"
  /\ videoId \notin SongIds(ret.playlist)
  /\ \E c \in Controllers : ~ret.controllers[c].inFlight
  /\ PlayerStep(prefetchStreamUrl(ret, videoId))

\* the HEAD request of controller c settles: answered, failed or aborted
PrefetchSettled(c) ==
  /\ arg = "App"
  /\ ret.controllers[c].inFlight
  /\ PlayerStep(prefetchSettled(ret, c))

InitPlayer ==
  /\ InitServer
  /\ variant = "map"
  /\ arg = "App"
  /\ ret = InitialApp

NextPlayer ==
  \/ \E videoId \in Ids : PlayNowFromResult(videoId)
  \/ \E videoId \in Ids, ok \in BOOLEAN : PlaySettled(videoId, ok)
  \/ \E videoId \in Ids, ok \in BOOLEAN : InfoSettled(videoId, ok)
  \/ \E videoId \in Ids : AddToQueueFromResult(videoId)
  \/ \E index \in 0..MaxQueue : PlayAtIndex(index)
  \/ \E index \in 0..MaxQueue : RemoveAtIndex(index)
  \/ ClearQueue
  \/ PrevTrack
  \/ NextTrack
  \/ \E videoId \in Ids : HandleResultHover(videoId)
  \/ \E c \in Controllers : PrefetchSettled(c)

SpecPlayer == InitPlayer /\ [][NextPlayer]_vars

\* ------------------------------------------ part_001: InstantAudioPlayer
\* The player is kept in ret: elements, the Audio elements created so far
\* with their src, paused and the stage of the load play() started
\* ("none": no listener of play, "loading", "canplay", "error"); audio: the
\* element this.audio holds; currentSrc.
Srcs == {"/api/stream/idA", "/api/stream/idB"}

\* new Audio()
Audio(src, load) == [src |-> src, paused |-> TRUE, load |-> load]

\* constructor()
InitialAudioPlayer ==
  [elements |-> <<Audio("", "none")>>, audio |-> 1, currentSrc |-> Null]

\* play(src) up to the return of its promise
play(player, src) ==
  IF player.currentSrc = src /\ player.elements[player.audio].src # ""
  THEN [player EXCEPT !.elements[player.audio].paused = FALSE]  \* this.audio.play()
  ELSE [player EXCEPT !.currentSrc = src,
                      !.elements = Append(@, Audio(src, "loading"))]

\* onCanPlay of the element newAudio
onCanPlay(player, newAudio) ==
  [player EXCEPT
     !.elements = [e \in DOMAIN @ |->
        IF e = newAudio THEN [@[e] EXCEPT !.paused = FALSE, !.load = "canplay"]
        ELSE IF e = player.audio THEN [@[e] EXCEPT !.paused = TRUE]
        ELSE @[e]],
     !.audio = newAudio]

\* onError of the element newAudio
onError(player, newAudio) ==
  [player EXCEPT !.elements[newAudio].load = "error"]

\* pause()
pause(player) == [player EXCEPT !.elements[player.audio].paused = TRUE]

AudioStep(player) ==
  /\ arg = "InstantAudioPlayer"
  /\ ret' = player
  /\ UNCHANGED <<variant, mapVars, lruVars, now, req, sent, arg>>

AudioPlay(src) ==
  /\ arg = "InstantAudioPlayer"
  /\ Len(ret.elements) < MaxAudios
  /\ AudioStep(play(ret, src))

AudioCanPlay(newAudio) ==
  /\ arg = "InstantAudioPlayer"
  /\ newAudio \in DOMAIN ret.elements
  /\ ret.elements[newAudio].load = "loading"
  /\ AudioStep(onCanPlay(ret, newAudio))

AudioError(newAudio) ==
  /\ arg = "InstantAudioPlayer"
  /\ newAudio \in DOMAIN ret.elements
  /\ ret.elements[newAudio].load = "loading"
  /\ AudioStep(onError(ret, newAudio))

AudioPause ==
  /\ arg = "InstantAudioPlayer"
  /\ AudioStep(pause(ret))

InitAudio ==
  /\ InitServer
  /\ variant = "map"
  /\ arg = "InstantAudioPlayer"
  /\ ret = InitialAudioPlayer

NextAudio ==
  \/ \E src \in Srcs : AudioPlay(src)
  \/ \E newAudio \in 1..MaxAudios : AudioCanPlay(newAudio)
  \/ \E newAudio \in 1..MaxAudios : AudioError(newAudio)
  \/ AudioPause

SpecAudio == InitAudio /\ [][NextAudio]_vars

\* ------------------------------------------- the JSON bodies of the errors
\* A JSON body: the keys JSON.stringify writes (a key whose value is
\* undefined is not written) with their values.
Json1(k, v) == k :> v
Json2(k1, v1, k2, v2) == (k1 :> v1) @@ (k2 :> v2)

\* `details: process.env.NODE_ENV === "development" ? error.stack : undefined`
withDetails(body, nodeEnv, error) ==
  IF nodeEnv = "development" THEN body @@ ("details" :> error.stack) ELSE body

\* the 400 of GET /api/info/:videoId and GET /api/stream/:videoId
invalidIdResponse(build, param) ==
  [status |-> 400,
   body |-> IF build = "map" THEN Json2("error", "Invalid video ID", "videoId", param)
            ELSE Json1("error", "Invalid video ID")]

\* catch block of GET /api/info/:videoId
infoErrorResponse(build, videoId, error, nodeEnv) ==
  IF build = "map"
  THEN LET errorMessage == Or(error.message, "Failed to fetch video info") IN
       [status |-> infoErrorStatus(errorMessage),
        body |-> withDetails(Json2("error", errorMessage, "videoId", videoId), nodeEnv, error)]
  ELSE [status |-> 500, body |-> Json2("error", error.message, "videoId", videoId)]

\* catch block of GET /api/stream/:videoId when the resolution has failed
streamErrorResponse(build, videoId, error, nodeEnv) ==
  IF build = "map"
  THEN LET errorMessage == Or(error.message, "Failed to stream audio") IN
       [status |-> streamErrorStatus(errorMessage),
        body |-> withDetails(Json2("error", errorMessage, "videoId", videoId)
                               @@ Json1("suggestion", "This video may be restricted, unavailable, or require age verification."),
                             nodeEnv, error)]
  ELSE [status |-> 500,
        body |-> Json2("error", "Stream failed", "videoId", videoId)
                   @@ Json1("message", error.message)]

\* What a handler answers to a request for `param` whose resolution, if one is
\* started, rejects with `error`.
errorResponse(build, endpoint, param, error, nodeEnv) ==
  IF rejects(param) THEN invalidIdResponse(build, param)
  ELSE IF endpoint = "GET_info"
       THEN infoErrorResponse(build, normalizeVideoId(param).id, error, nodeEnv)
       ELSE streamErrorResponse(build, normalizeVideoId(param).id, error, nodeEnv)

\* errors the extraction rejects with: two playability reasons, a rate limit
\* and an error without message
Rejections ==
  {[message |-> m, stack |-> "Error: " \o m \o " at fetch"] :
     m \in {"Video unavailable", "This video is unavailable", "Status code: 429", ""}}

InitErrors ==
  /\ InitServer
  /\ variant \in {"map", "lru"}
  /\ arg \in [endpoint : {"GET_info", "GET_stream"}, param : {"dQw4w9WgXcQ", "12345"},
               error : Rejections, nodeEnv : {"development", "production", ""}]
  /\ ret = [done |-> FALSE]

ErrorResponse ==
  /\ ~ret.done
  /\ ret' = [done |-> TRUE,
             response |-> errorResponse(variant, arg.endpoint, arg.param, arg.error,
                                        arg.nodeEnv)]
  /\ UNCHANGED <<variant, mapVars, lruVars, now, req, sent, arg>>

NextErrors == ErrorResponse

SpecErrors == InitErrors /\ [][NextErrors]_vars

\* ------------------------------- metadata resolution as a function
\* GET /api/info/:videoId of index_20260113144241.js (48-69): what it makes of
\* the result of ytdl.getInfo.  It reads videoDetails without defaults; ""
\* stands for a field the JSON body leaves out.
infoResponse(videoId, got) ==
  IF ~got.ok THEN Err(got.err)
  ELSE LET videoDetails == got.details IN
       IF ~videoDetails.present THEN Err("TypeError")   \* videoDetails.videoId of undefined
       ELSE OkInfo([videoId |-> videoId,
                    title |-> videoDetails.title,
                    channelName |-> videoDetails.authorName,
                    thumbnail |-> IF Len(videoDetails.thumbnails) = 0 THEN ""
                                  ELSE widestThumbnail(videoDetails.thumbnails, 1,
                                                       videoDetails.thumbnails[1]).url,
                    duration |-> IF videoDetails.lengthSeconds < 0 THEN 0
                                 ELSE videoDetails.lengthSeconds])

\* arg is the metadata the extraction collaborator delivers for idA (present =
\* FALSE: it delivers no details object at all; "", <<>> and -1: the field is
\* left out); ret what one build resolves it to.
Thumbs == <<[url |-> "t1", width |-> 120], [url |-> "t2", width |-> 480]>>

Payloads ==
  {[present |-> TRUE, title |-> t, channel |-> c, owner |-> o, thumbnails |-> th,
    duration |-> d] :
     t \in {"", "Song"}, c \in {"", "Artist"}, o \in {"", "Owner"},
     th \in {<<>>, Thumbs}, d \in {-1, 213}}
  \cup {[present |-> FALSE, title |-> "", channel |-> "", owner |-> "",
         thumbnails |-> <<>>, duration |-> -1]}

RECURSIVE urlsOf(_)
urlsOf(thumbs) == IF Len(thumbs) = 0 THEN <<>> ELSE <<Head(thumbs).url>> \o urlsOf(Tail(thumbs))

InitInfo ==
  /\ InitServer /\ variant = "map"
  /\ arg \in Payloads
  /\ ret = [done |-> FALSE]

\* fetchVideoInfo of part_000 on the payload of ytdl.getBasicInfo
ResolveVideoInfo ==
  /\ ~ret.done
  /\ ret' = [done |-> TRUE, fn |-> "fetchVideoInfo",
             out |-> resolveVideoInfo("idA",
                       [ok |-> TRUE, err |-> "",
                        details |-> Details(arg.present, arg.title, arg.channel, arg.owner,
                                            urlsOf(arg.thumbnails), arg.duration)])]
  /\ UNCHANGED <<variant, now, mapVars, lruVars, req, sent, arg>>

\* getVideoInfo of index_20260113173543.js on the JSON of yt-dlp -j (a
\* payload without an object is the JSON text `null`)
ResolveYtInfo ==
  /\ ~ret.done
  /\ ret' = [done |-> TRUE, fn |-> "getVideoInfo",
             out |-> resolveYtInfo("idA",
                       [ok |-> TRUE, err |-> "",
                        parsed |-> YtJson(TRUE, arg.title, arg.channel, arg.owner, "",
                                          arg.thumbnails,
                                          IF arg.duration < 0 THEN 0 ELSE arg.duration)])]
  /\ UNCHANGED <<variant, now, mapVars, lruVars, req, sent, arg>>

\* the info handler of index_20260113144241.js on the payload of ytdl.getInfo
InfoResponse ==
  /\ ~ret.done
  /\ ret' = [done |-> TRUE, fn |-> "GET /api/info",
             out |-> infoResponse("idA",
                       [ok |-> TRUE, err |-> "",
                        details |-> Details(arg.present, arg.title, arg.channel, arg.owner,
                                            arg.thumbnails, arg.duration)])]
  /\ UNCHANGED <<variant, now, mapVars, lruVars, req, sent, arg>>

NextInfo == ResolveVideoInfo \/ ResolveYtInfo \/ InfoResponse

SpecInfo == InitInfo /\ [][NextInfo]_vars

\* Resolution side of part_000 with the passing of time.  What the server
\* itself schedules is fair: the clock and the cleanup interval.  Whether and
\* when ytdl-core or the upstream answer is up to them: the code sets no timer
\* on either.
NextMapTimed ==
  \/ \E r \in Reqs, videoId \in Ids : GetStream(r, videoId)
  \/ \E r \in Reqs, videoId \in Ids : GetInfo(r, videoId)
  \/ \E l \in Reqs, got \in GetInfoResults : StreamExtractionDone(l, got)
  \/ \E l \in Reqs, got \in GetBasicInfoResults : InfoExtractionDone(l, got)
  \/ \E r \in Reqs : FetchRejects(r)
  \/ Sweep
  \/ ServerTick

SpecMapFair ==
  /\ InitMap /\ [][NextMapTimed]_vars
  /\ WF_vars(ServerTick) /\ WF_vars(Sweep)

\* ------------------------------------ index_20260113173543.js: runYtDlp
\* One call of runYtDlp.  The file holds two definitions of it: the one of the
\* cached server (191-231) guards its child listeners with a `killed` flag,
\* the one of the server without caches (694-724) has no flag.  arg.guarded
\* tells which one runs; ret is the state of the call: the timer ("armed",
\* "fired", "cleared"), the flag, the child (signalled: SIGKILL was sent;
\* errored / closed: it has emitted "error" / "close"), the two buffers and
\* the promise with the listener that settled it.
PendingPromise == [state |-> "pending", value |-> "", by |-> "none"]

\* resolve / reject of a promise: the first call settles it, later calls do
\* nothing
settlePromise(promise, state, value, by) ==
  IF promise.state = "pending" THEN [state |-> state, value |-> value, by |-> by]
  ELSE promise

\* clearTimeout(timer): a timer that has fired stays fired
clearTimeout(timer) == IF timer = "armed" THEN "cleared" ELSE timer

\* the call up to the return of the promise
runYtDlp ==
  [timer |-> "armed", killed |-> FALSE, signalled |-> FALSE, errored |-> FALSE,
   closed |-> FALSE, code |-> 0, stdout |-> <<>>, stderr |-> <<>>,
   promise |-> PendingPromise]

\* the setTimeout callback
timerCallback(guarded, st) ==
  [st EXCEPT !.timer = "fired",
             !.killed = IF guarded THEN TRUE ELSE @,
             !.signalled = TRUE,
             !.promise = settlePromise(@, "rejected", "yt-dlp timed out", "timer")]

\* child.on("error", ...)
childOnError(guarded, st, err) ==
  IF guarded /\ st.killed THEN st
  ELSE [st EXCEPT !.timer = clearTimeout(@),
                  !.promise = settlePromise(@, "rejected", err, "error")]

\* stderr.trim() || `yt-dlp failed (exit ${code})`; -1 stands for the null
\* code of a child that a signal ended
exitMessage(stderr, code) ==
  IF stderr # <<>> THEN stderr[1]
  ELSE CASE code = 1 -> "yt-dlp failed (exit 1)"
         [] code = -1 -> "yt-dlp failed (exit null)"
         [] OTHER -> "yt-dlp failed (exit 0)"

\* a close listener that leaves the timer armed
childOnClose_NoClear(guarded, st, code) ==
  IF guarded /\ st.killed THEN st
  ELSE [st EXCEPT !.promise =
          IF code = 0 THEN settlePromise(@, "resolved", "stdout", "close")
          ELSE settlePromise(@, "rejected", exitMessage(st.stderr, code), "close")]

\* child.on("close", ...)
childOnClose(guarded, st, code) ==
  IF guarded /\ st.killed THEN st
  ELSE [st EXCEPT !.timer = clearTimeout(@),
                  !.promise =
          IF code = 0 THEN settlePromise(@, "resolved", "stdout", "close")
          ELSE settlePromise(@, "rejected", exitMessage(st.stderr, code), "close")]

YtDlpUnchanged == UNCHANGED <<variant, now, mapVars, lruVars, req, sent, arg>>

\* the timer expires; a cleared timer never does
TimerFires ==
  /\ ret.timer = "armed"
  /\ ret' = timerCallback(arg.guarded, ret)
  /\ YtDlpUnchanged

\* child.stdout / child.stderr emit "data"
StdoutData(d) ==
  /\ ~ret.closed /\ Len(ret.stdout) < MaxChunks
  /\ ret' = [ret EXCEPT !.stdout = Append(@, d)]
  /\ YtDlpUnchanged

StderrData(d) ==
  /\ ~ret.closed /\ Len(ret.stderr) < MaxChunks
  /\ ret' = [ret EXCEPT !.stderr = Append(@, d)]
  /\ YtDlpUnchanged

\* the child emits "error" (it could not be spawned or not be killed); "close"
\* may or may not follow
ChildError(err) ==
  /\ ~ret.closed /\ ~ret.errored
  /\ ret' = [childOnError(arg.guarded, ret, err) EXCEPT !.errored = TRUE]
  /\ YtDlpUnchanged

\* The child emits "close" with its exit code.  A child that was sent SIGKILL
\* closes with the null code, or with its own code when it had ended already.
ExitCodes == {0, 1}

ChildClose(code) ==
  /\ ~ret.closed
  /\ code \in ExitCodes \/ (ret.signalled /\ code = -1)
  /\ ret' = [childOnClose(arg.guarded, ret, code) EXCEPT !.closed = TRUE, !.code = code]
  /\ YtDlpUnchanged

InitYtDlp ==
  /\ InitServer /\ variant = "lru"
  /\ arg \in {[guarded |-> g] : g \in BOOLEAN}
  /\ ret = runYtDlp

NextYtDlp ==
  \/ TimerFires
  \/ \E d \in {"https://u1"} : StdoutData(d)
  \/ \E d \in {"ERROR: Video unavailable"} : StderrData(d)
  \/ \E err \in {"spawn ENOENT"} : ChildError(err)
  \/ \E code \in ExitCodes \cup {-1} : ChildClose(code)

SpecYtDlp == InitYtDlp /\ [][NextYtDlp]_vars

\* ------------------------------------------------------------------ claims
\* the calls of one namespace whose extraction for videoId is in flight
InFlight(kinds, videoId) ==
  {r \in Reqs : req[r].extracting /\ req[r].kind \in kinds /\ req[r].videoId = videoId}

\* the requests of one namespace suspended on a resolution of videoId
Suspended(kinds, videoId) ==
  {q \in Reqs : /\ req[q].kind \in kinds
                /\ req[q].videoId = videoId
                /\ req[q].pc \in {"awaitResolve", "background"}}

\* the call outcomes the last step delivered for videoId in one namespace
Settled(kinds, videoId) ==
  {e \in sent : e.kind \in kinds /\ e.videoId = videoId /\ e.result.set}

\* C1: in part_000 at most one extraction is in flight per identifier and
\* namespace; every caller suspended on an identifier awaits that one
\* extraction, and the callers it settles all receive the same value or the
\* same error.
C1_SingleFlight ==
  \A videoId \in Ids, kinds \in {StreamKinds, InfoKinds} :
    /\ Cardinality(InFlight(kinds, videoId)) <= 1
    /\ \A q \in Suspended(kinds, videoId) : req[q].awaits \in InFlight(kinds, videoId)
    /\ \A e1, e2 \in Settled(kinds, videoId) :
         e1.result = e2.result /\ e1.promise = e2.promise

\* C1 witness: one extraction has just settled two callers at once
C1_Witness ==
  \E e1, e2 \in sent :
    /\ e1.r # e2.r
    /\ e1.videoId = e2.videoId
    /\ e1.result.set /\ e2.result.set
    /\ e1.promise # 0 /\ e1.promise = e2.promise

\* the callers of getStreamUrl / getVideoInfo that wait on the leader's events
Waiters(kinds, videoId) ==
  {q \in Reqs : /\ req[q].kind \in kinds
                /\ req[q].videoId = videoId
                /\ req[q].pc = "awaitEvent"}

\* the key of a namespace in pendingRequests
PendingKey(kinds, videoId) == IF kinds = StreamKinds THEN videoId ELSE infoKey(videoId)

Namespaces == {StreamKinds, InfoKinds}

\* C2: in getStreamUrl and getVideoInfo of index_20260113173543.js a caller
\* that found the key pending has no extraction of its own and waits only
\* while the key is pending and its leader is in flight; the callers settled
\* together receive the same value or error; and every waiter is eventually
\* settled.
C2_WaiterSafe ==
  \A videoId \in Ids, kinds \in Namespaces :
    /\ \A q \in Waiters(kinds, videoId) :
         /\ ~req[q].extracting
         /\ PendingKey(kinds, videoId) \in pendingRequests
         /\ Cardinality(InFlight(kinds, videoId)) = 1
    /\ variant = "lru" => \A e1, e2 \in Settled(kinds, videoId) : e1.result = e2.result

C2_WaitersSettled ==
  /\ []C2_WaiterSafe
  /\ \A q \in Reqs : (req[q].pc = "awaitEvent") ~> (req[q].pc # "awaitEvent")

\* C2 witness: a leader has just failed and its error reached a second caller
C2_Witness ==
  /\ variant = "lru"
  /\ \E e1, e2 \in sent :
       /\ e1.r # e2.r
       /\ e1.videoId = e2.videoId
       /\ e1.result.set /\ ~e1.result.ok
       /\ e2.result = e1.result

\* C3: a key is pending exactly while the extraction registered under it is in
\* flight (so the registration goes when the resolution settles, whatever its
\* outcome), and a suspended caller is always attached to the registration
\* that is current: never to a finished operation.
C3_PendingWhileInFlight ==
  \A videoId \in Ids :
    /\ variant = "map" =>
         /\ videoId \in DOMAIN pendingStreamRequests <=> InFlight(StreamKinds, videoId) # {}
         /\ videoId \in DOMAIN pendingInfoRequests <=> InFlight(InfoKinds, videoId) # {}
         /\ \A q \in Suspended(StreamKinds, videoId) :
              /\ videoId \in DOMAIN pendingStreamRequests
              /\ req[q].awaits = pendingStreamRequests[videoId]
         /\ \A q \in Suspended(InfoKinds, videoId) :
              /\ videoId \in DOMAIN pendingInfoRequests
              /\ req[q].awaits = pendingInfoRequests[videoId]
    /\ variant = "lru" =>
         \A kinds \in Namespaces :
           /\ PendingKey(kinds, videoId) \in pendingRequests <=> InFlight(kinds, videoId) # {}
           /\ Waiters(kinds, videoId) # {} => PendingKey(kinds, videoId) \in pendingRequests

\* C3 witness: a resolution has just settled with a failure and a request for
\* the same identifier would start a fresh extraction
C3_Witness ==
  \E e \in sent :
    /\ e.result.set /\ ~e.result.ok
    /\ e.kind \in StreamKinds
    /\ variant = "map" /\ fetchStreamUrlBranch(e.videoId) = "start"

\* the caches hold nothing for videoId in the namespace
NotCached(kinds, videoId) ==
  IF kinds = StreamKinds
  THEN videoId \notin DOMAIN streamUrlCache /\ lruIndex(lruStreamUrlCache, videoId) = 0
  ELSE videoId \notin DOMAIN videoInfoCache /\ lruIndex(lruVideoInfoCache, videoId) = 0

NotPending(kinds, videoId) ==
  /\ videoId \notin DOMAIN (IF kinds = StreamKinds THEN pendingStreamRequests
                            ELSE pendingInfoRequests)
  /\ PendingKey(kinds, videoId) \notin pendingRequests

\* C4: a step that delivers a failed resolution of an identifier delivers the
\* same rejection to the leader and to every caller that was attached, changes
\* neither cache of either build, and leaves the identifier neither cached nor
\* pending.
C4_FailureNotRemembered ==
  [][\A videoId \in Ids, kinds \in Namespaces :
       (\E e \in Settled(kinds, videoId)' : ~e.result.ok) =>
         /\ \A e1, e2 \in Settled(kinds, videoId)' : e1.result = e2.result
         /\ \A q \in Suspended(kinds, videoId) \cup Waiters(kinds, videoId)
                     \cup InFlight(kinds, videoId) :
              \E e \in Settled(kinds, videoId)' : e.r = q
         /\ UNCHANGED <<streamUrlCache, videoInfoCache, lruStreamUrlCache, lruVideoInfoCache>>
         /\ NotCached(kinds, videoId)'
         /\ NotPending(kinds, videoId)'
         /\ (Suspended(kinds, videoId) \cup Waiters(kinds, videoId)
               \cup InFlight(kinds, videoId))' = {}]_vars

\* C4 witness: a failed extraction of part_000 has just rejected two callers
C4_Witness ==
  /\ variant = "map"
  /\ \E e1, e2 \in sent :
       /\ e1.r # e2.r
       /\ e1.videoId = e2.videoId
       /\ e1.kind \in StreamKinds /\ e2.kind \in StreamKinds
       /\ e1.result.set /\ ~e1.result.ok /\ e2.result = e1.result

\* C5: a caller of one namespace is suspended only on an extraction of its own
\* namespace, which is then in flight: a pending key, a cache entry or an
\* extraction of the other namespace neither holds a caller nor serves it.
C5_NamespacesIndependent ==
  \A videoId \in Ids, kinds \in Namespaces :
    /\ \A q \in Suspended(kinds, videoId) \cup Waiters(kinds, videoId) :
         InFlight(kinds, videoId) # {}
    /\ \A q \in Suspended(kinds, videoId) :
         req[q].awaits \in InFlight(kinds, videoId)
    /\ \A e \in Settled(kinds, videoId) :
         e.result.ok =>
           IF kinds = StreamKinds THEN e.result.info = NoInfo /\ e.result.url # ""
           ELSE e.result.url = "" /\ e.result.info # NoInfo

\* C5 witness: the two namespaces each have an extraction in flight for the
\* same identifier, in the build with the single pendingRequests map
C5_Witness ==
  /\ variant = "lru"
  /\ \E videoId \in Ids :
       /\ InFlight(StreamKinds, videoId) # {}
       /\ InFlight(InfoKinds, videoId) # {}
       /\ {videoId, infoKey(videoId)} \subseteq pendingRequests

\* C6: in the Map caches of part_000 a get that directly follows a set of the
\* same key returns the value set; a get misses exactly when the key is absent
\* or its entry is older than the TTL (1 period = 3 h for stream URLs, 8
\* periods = 24 h for metadata); a miss on an expired entry removes the entry
\* from the map, a hit or a miss on an absent key leaves the map as it is.
C6_CacheGetSet ==
  [][/\ (arg'.op = "getCachedStreamUrl") =>
          LET k == arg'.key
              absent == k \notin DOMAIN streamUrlCache
              expired == ~absent /\ now - streamUrlCache[k].timestamp > 1
          IN /\ ret' = Null <=> absent \/ expired
             /\ ret' # Null => ret' = streamUrlCache[k].url
             /\ (arg.op = "setCachedStreamUrl" /\ arg.key = k) => ret' = arg.value
             /\ expired => /\ k \notin DOMAIN streamUrlCache'
                           /\ Cardinality(DOMAIN streamUrlCache') =
                                Cardinality(DOMAIN streamUrlCache) - 1
             /\ ~expired => streamUrlCache' = streamUrlCache
     /\ (arg'.op = "getCachedVideoInfo") =>
          LET k == arg'.key
              absent == k \notin DOMAIN videoInfoCache
              expired == ~absent /\ now - videoInfoCache[k].timestamp > 8
          IN /\ ret' = NoInfo <=> absent \/ expired
             /\ ret' # NoInfo => ret' = videoInfoCache[k].info
             /\ (arg.op = "setCachedVideoInfo" /\ arg.key = k) => ret' = arg.value
             /\ expired => /\ k \notin DOMAIN videoInfoCache'
                           /\ Cardinality(DOMAIN videoInfoCache') =
                                Cardinality(DOMAIN videoInfoCache) - 1
             /\ ~expired => videoInfoCache' = videoInfoCache]_vars

\* C6 witness: a get of the metadata cache has just missed while the other
\* identifier's stream URL, stored one period ago, is still served
C6_Witness ==
  /\ arg.op = "getCachedVideoInfo"
  /\ ret = NoInfo
  /\ now > INFO_CACHE_TTL_MS
  /\ \E k \in DOMAIN streamUrlCache :
       now - streamUrlCache[k].timestamp = 1 /\ getCachedStreamUrl(k) # Null

\* C7: in the LRU build a stream URL that getStreamUrl or the cache-hit path of
\* GET /api/stream hands out was stored at most one TTL (1 period) ago.
C7_NoUrlPastTtl ==
  \A e \in sent :
    (variant = "lru" /\ e.kind \in StreamKinds /\ e.result.ok) =>
      LET i == lruIndex(lruStreamUrlCache, e.videoId)
      IN i # 0 => now - lruStreamUrlCache[i].storedAt <= streamUrlCacheTtl

\* C8: neither stream-URL cache and neither metadata cache ever holds more
\* entries than the maximum entry count.
C8_CachesBounded ==
  /\ Cardinality(DOMAIN streamUrlCache) <= StreamCacheMax
  /\ Cardinality(DOMAIN videoInfoCache) <= InfoCacheMax
  /\ Len(lruStreamUrlCache) <= StreamCacheMax
  /\ Len(lruVideoInfoCache) <= InfoCacheMax

\* C9: a GET /api/stream request whose client has closed the connection has no
\* upstream fetch open.
C9_CloseAbortsUpstream ==
  \A r \in Reqs : req[r].closed => req[r].upstream # "open"

AudioMimeTypes == {"audio/mp4", "audio/mpeg", "audio/webm"}
CopiedHeaders == {"content-type", "content-length", "content-range", "accept-ranges"}

\* C10: the relay of part_000 sends the upstream status; copies content-length
\* and content-range exactly when upstream sends them; copies content-type and
\* accept-ranges, with an audio MIME type and "bytes" when upstream omits them;
\* lets no other upstream header through; and sends upstream the inbound Range
\* header unchanged, or none when the request has none.
C10_RelayHeaders ==
  ret.done =>
    LET up == arg.upstream.headers
    IN /\ ret.status = arg.upstream.status
       /\ ret.headers["content-length"] = up["content-length"]
       /\ ret.headers["content-range"] = up["content-range"]
       /\ ret.headers["content-type"] =
            IF up["content-type"] # "" THEN up["content-type"]
            ELSE ret.headers["content-type"]
       /\ up["content-type"] = "" => ret.headers["content-type"] \in AudioMimeTypes
       /\ ret.headers["accept-ranges"] =
            IF up["accept-ranges"] # "" THEN up["accept-ranges"] ELSE "bytes"
       /\ ret.headers["cache-control"] = "public, max-age=7200"
       /\ \A h \in HeaderNames \ (CopiedHeaders \cup {"cache-control"}) :
            ret.headers[h] = ""
       /\ ret.request.Range = arg.range

\* C10 witness: a 206 answer to a ranged request, without content-type and with
\* an etag, has been relayed
C10_Witness ==
  /\ ret.done
  /\ arg.range = "bytes=100-199"
  /\ arg.upstream.status = 206
  /\ arg.upstream.headers["content-type"] = ""
  /\ arg.upstream.headers["content-range"] # ""
  /\ arg.upstream.headers["etag"] # ""

\* C11: in the build with the LRU caches, a request with a Range header to
\* which the upstream answers 206 with a Content-Range is answered with status
\* 206 and that same Content-Range, whether the stream URL came from the cache
\* or from a resolution.
C11_PartialContentRelayed ==
  (/\ ret.done
   /\ Truthy(arg.range)
   /\ arg.upstream.status = 206
   /\ Truthy(arg.upstream.headers["content-range"]))
  => /\ ret.status = 206
     /\ ret.headers["content-range"] = arg.upstream.headers["content-range"]

\* C12: a failure of the stream relay before any response header is sent, an
\* upstream status outside 2xx included, is answered with a JSON error: no
\* response carries a status outside 2xx with anything but a JSON body.
C12_FailureAnsweredAsJson ==
  \A e \in sent :
    (e.kind = "GET_stream" /\ e.status # 0 /\ e.status \notin 200..299)
      => e.body = "json"

\* C13: a status line and a JSON error body are written only while no
\* response header has been sent; an error while the body is relayed only
\* terminates the response.  No request gets a second status or a JSON body
\* after its headers.
C13_ErrorBodyOnlyBeforeHeaders ==
  \A e \in sent : (e.status # 0 \/ e.body = "json") => ~e.afterHeaders

\* a relay of either build fails after its headers were sent
C13_Witness ==
  \E e \in sent : e.afterHeaders /\ e.body = "destroyed" /\ e.status = 0

\* C14: runYtDlp settles its promise once.  It resolves only when the child
\* closes with exit code 0 before the timeout has elapsed; when the timeout
\* elapses the child is sent SIGKILL and the promise is rejected with the
\* timed-out error; a later close or error event of the killed child changes
\* nothing; every settlement that is not the timeout clears the timer.
C14_Settled ==
  /\ ret.promise.state = "resolved" =>
       /\ ret.promise.by = "close" /\ ret.closed /\ ret.code = 0
       /\ ret.timer = "cleared"
  /\ ret.timer = "fired" =>
       /\ ret.signalled
       /\ ret.promise = [state |-> "rejected", value |-> "yt-dlp timed out", by |-> "timer"]
  /\ (ret.promise.state # "pending" /\ ret.promise.by # "timer") => ret.timer = "cleared"
  /\ ret.promise.state = "pending" => ret.timer = "armed"

C14_RunYtDlpSettlesOnce ==
  /\ []C14_Settled
  /\ [][ret.promise.state # "pending" => ret'.promise = ret.promise]_vars

\* the killed child of a timed-out call closes, after the unguarded listeners
\* have run on it
C14_Witness ==
  /\ ~arg.guarded /\ ret.timer = "fired" /\ ret.closed /\ ret.errored
  /\ ret.promise.by = "timer"

\* C15: every extraction is bounded by a timeout: a resolution that
\* fetchStreamUrl or fetchVideoInfo of part_000 has started eventually settles
\* and its pending entry is eventually removed, whether or not the extraction
\* collaborator ever responds.
C15_ResolutionEnds ==
  \A videoId \in Ids :
    /\ (videoId \in DOMAIN pendingStreamRequests)
         ~> (videoId \notin DOMAIN pendingStreamRequests)
    /\ (videoId \in DOMAIN pendingInfoRequests)
         ~> (videoId \notin DOMAIN pendingInfoRequests)

\* C16: in the format selection of fetchStreamUrl (part_000) the container
\* outranks the bitrate: of an audio/mp4 candidate at 128 kbps and an
\* audio/webm candidate at 256 kbps the URL of the mp4 candidate is resolved.
C16_ContainerOutranksBitrate ==
  (/\ ret.done /\ ret.fn = "fetchStreamUrl"
   /\ Len(arg.formats) = 2
   /\ \E i, j \in 1..2 : /\ arg.formats[i].url = "m128"
                         /\ arg.formats[j].url = "w256")
  => ret.out = OkUrl("m128")

\* vocabulary of C17: the audio-only candidates of a list (what the
\* "audioonly" filter of ytdl-core keeps), as positions of the list
Candidates(formats) ==
  {i \in 1..Len(formats) :
     Truthy(formats[i].url) /\ ~formats[i].hasVideo /\ formats[i].hasAudio}

Segmented(f) == f.isHLS \/ f.isDashMPD

\* the candidates narrowed by segmentation and known length
Narrowed(formats) ==
  LET C == Candidates(formats)
      plain == {i \in C : ~Segmented(formats[i])}
      sized == {i \in plain : Truthy(formats[i].contentLength)}
  IN IF sized # {} THEN sized ELSE IF plain # {} THEN plain ELSE C

\* the narrowed candidates narrowed by container
FinalPool(formats) ==
  LET mp4 == {i \in Narrowed(formats) : isMp4Audio(formats[i])}
  IN IF mp4 # {} THEN mp4 ELSE Narrowed(formats)

\* C17: pickAudioFormat returns an element of its input that is audio-only;
\* one that is not segmented whenever some audio-only candidate is not; one of
\* known content length whenever some non-segmented candidate has one; an
\* audio/mp4 one whenever the narrowed pool holds one; of the highest bitrate
\* of the final pool; and the same one for the same list (the first such
\* element of the list).
C17_PickAudioFormat ==
  (ret.done /\ ret.fn = "pickAudioFormat") =>
    LET formats == arg.formats
        C == Candidates(formats)
        sel == ret.out.format
    IN IF C = {} THEN ~ret.out.ok
       ELSE /\ ret.out.ok
            /\ \E i \in C : formats[i] = sel
            /\ (\E i \in C : ~Segmented(formats[i])) => ~Segmented(sel)
            /\ (\E i \in C : ~Segmented(formats[i]) /\ Truthy(formats[i].contentLength))
                 => Truthy(sel.contentLength)
            /\ (\E i \in Narrowed(formats) : isMp4Audio(formats[i])) => isMp4Audio(sel)
            /\ \E i \in FinalPool(formats) :
                 /\ formats[i] = sel
                 /\ \A j \in FinalPool(formats) :
                      /\ sortBitrate(formats[j]) <= sortBitrate(sel)
                      /\ (sortBitrate(formats[j]) = sortBitrate(sel)) => i <= j

\* an audio/mp4 format is picked over a candidate of higher bitrate
C17_Witness ==
  /\ ret.done /\ ret.fn = "pickAudioFormat" /\ ret.out.ok
  /\ isMp4Audio(ret.out.format) /\ ~Segmented(ret.out.format)
  /\ \E i \in Candidates(arg.formats) :
       sortBitrate(arg.formats[i]) > sortBitrate(ret.out.format)

\* the formats of a list that selectFastestAudioFormat considers, as positions
YtCandidates(formats) ==
  {i \in 1..Len(formats) :
     ytAudioOnly(formats[i]) /\ formats[i].filesize # 0 /\ formats[i].filesize < 50}

\* C18: selectFastestAudioFormat prefers formats that are not segmented: of
\* two audio-only candidates of the same container, bitrate and file size, one
\* with protocol http_dash_segments and one without, the one without is
\* selected; and within one container and one segmentation class the highest
\* bitrate is selected.
C18_NonSegmentedPreferred ==
  (ret.done /\ ret.fn = "selectFastestAudioFormat") =>
    LET formats == arg.formats
        C == YtCandidates(formats)
        seg(i) == formats[i].protocol = "http_dash_segments"
    IN /\ (/\ Len(formats) = 2 /\ C = {1, 2}
           /\ formats[1].ext = formats[2].ext /\ formats[1].abr = formats[2].abr
           /\ formats[1].filesize = formats[2].filesize
           /\ seg(1) # seg(2))
          => ret.out.protocol # "http_dash_segments"
       /\ (/\ C # {}
           /\ \A i, j \in C : formats[i].ext = formats[j].ext /\ seg(i) = seg(j))
          => \A i \in C : formats[i].abr <= ret.out.abr

\* C19: when the extraction yields no audio-only candidate, getStreamUrl of
\* index_20260113173543.js fails: it never resolves to, nor caches, the URL of
\* a format that is not audio-only.
C19_NoAudioFormatFails ==
  (ret.done /\ ret.fn = "getStreamUrl") =>
    /\ (\A i \in 1..Len(arg.formats) : ~ytAudioOnly(arg.formats[i]))
         => (~ret.out.ok /\ ret.cached = "")
    /\ \A i \in 1..Len(arg.formats) :
         (ret.out.ok /\ ret.cached = arg.formats[i].url) => ytAudioOnly(arg.formats[i])

\* C20: metadata resolution never fails because a display field is missing:
\* it yields "Unknown Title", "Unknown Channel", "" and 0 for a title, channel,
\* thumbnail and duration the payload leaves out, also when the payload leaves
\* out the whole details object.
C20_MetadataDefaults ==
  ret.done =>
    /\ ret.out.ok
    /\ arg.title = "" => ret.out.info.title = "Unknown Title"
    /\ (arg.channel = "" /\ arg.owner = "") => ret.out.info.channelName = "Unknown Channel"
    /\ arg.thumbnails = <<>> => ret.out.info.thumbnail = ""
    /\ arg.duration < 0 => ret.out.info.duration = 0

\* C21: normalizeVideoId is the identity on the 11-character strings over
\* [a-zA-Z0-9_-]; for https://y/watch?v=<id>, https://y/embed/<id> and the bare
\* <id> it returns <id>; for "", "http://" and "12345" it returns null; and
\* applied to an identifier it returned it returns that identifier.
C21_NormalizeVideoId ==
  ret.done =>
    /\ arg \in VideoIdSamples => ret.first = VideoId(arg)
    /\ \A id \in VideoIdSamples :
         arg \in {"https://y/watch?v=" \o id, "https://y/embed/" \o id, id}
           => ret.first = VideoId(id)
    /\ arg \in {"", "http://", "12345"} => ~ret.first.valid
    /\ ret.again => ret.second = ret.first

\* an identifier taken out of a URL has been normalized a second time
C21_Witness ==
  /\ ret.done /\ ret.again /\ arg = "https://y/embed/3456789_-aA"
  /\ ret.second = VideoId("3456789_-aA")

\* the identifiers the server holds state for
HeldIds ==
  {req[r].videoId : r \in {q \in Reqs : req[q].pc # "idle"}}
  \cup DOMAIN streamUrlCache \cup DOMAIN videoInfoCache
  \cup DOMAIN pendingStreamRequests \cup DOMAIN pendingInfoRequests

C22_RejectedHoldsNothing ==
  /\ \A id \in HeldIds : normalizeVideoId(id).valid
  /\ \A e \in sent : (e.status = 400) <=> ~normalizeVideoId(e.videoId).valid

\* C22: GET /api/info/:id, GET /api/stream/:id and HEAD /api/stream/:id answer
\* 400 whenever normalizeVideoId rejects the path parameter; no extraction is
\* started for it and no cache and no pending map changes.
C22_InvalidIdentifier ==
  /\ []C22_RejectedHoldsNothing
  /\ [][(\E e \in sent' : e.status = 400) => UNCHANGED <<mapVars, req>>]_vars

\* a HEAD request with a rejected parameter is answered while an extraction
\* for another request is in flight and a stream URL is cached
C22_Witness ==
  /\ \E e \in sent : e.status = 400 /\ e.kind = "HEAD_stream" /\ e.videoId = "12345"
  /\ \E r \in Reqs : req[r].extracting
  /\ DOMAIN streamUrlCache # {}

\* the extraction reports the content as unavailable
ContentUnavailable(error) == Includes(error.message, "unavailable")

\* C23: for a valid identifier a failed GET /api/info/:id answers 404 when the
\* extraction reports the content as unavailable and 500 otherwise, and a
\* failed GET /api/stream/:id answers by the same rule, its JSON body having a
\* suggestion field.
C23_UnavailableIs404 ==
  (ret.done /\ variant = "map" /\ ~rejects(arg.param)) =>
    /\ ret.response.status = IF ContentUnavailable(arg.error) THEN 404 ELSE 500
    /\ arg.endpoint = "GET_stream" => "suggestion" \in DOMAIN ret.response.body

\* C25: every JSON error body of the info and stream endpoints (400, 404,
\* 500) contains the offending identifier and an error string, and a details
\* field (the stack trace) only when NODE_ENV is "development".
C25_ErrorBodyNamesIdentifier ==
  ret.done =>
    LET body == ret.response.body IN
    /\ "error" \in DOMAIN body
    /\ "videoId" \in DOMAIN body
    /\ body["videoId"] \in {arg.param, normalizeVideoId(arg.param).id}
    /\ "details" \in DOMAIN body => arg.nodeEnv = "development"

\* the stream cache of the build holds a live entry for videoId
StreamCached(videoId) ==
  IF variant = "map" THEN Truthy(getCachedStreamUrl(videoId))
  ELSE lruHas(lruStreamUrlCache, videoId, streamUrlCacheTtl)

\* what HEAD requests are sent: the 200 without body when they arrive, and
\* nothing when their background resolution settles
C24_HeadAnswers ==
  /\ \A e \in sent : e.kind = "HEAD_stream" =>
       \/ e.status = 200 /\ e.body = "empty" /\ ~e.result.set
       \/ e.status = 0 /\ e.body = "none" /\ e.result.set
  /\ \A videoId \in Ids : Cardinality(InFlight(StreamKinds, videoId)) <= 1

\* the step in which HEAD request r arrives answers it; an extraction or a
\* wait is started for it only when the identifier was not cached
C24_HeadStep ==
  \A r \in Reqs :
    /\ (req[r].pc = "idle" /\ req'[r].pc # "idle" /\ req'[r].kind = "HEAD_stream")
         => /\ \E e \in sent' : e.r = r /\ e.status = 200
            /\ ~StreamCached(req'[r].videoId)
    /\ \A e \in sent' :
         (e.r = r /\ e.kind = "HEAD_stream" /\ e.status = 200)
           => IF StreamCached(e.videoId)
              THEN req'[r].pc = "idle"
                   /\ UNCHANGED <<pendingStreamRequests, pendingRequests>>
              ELSE req'[r].pc \in {"background", "timer"}

ClientTermination ==
  \/ arg.aborted \/ arg.reqAborted \/ arg.resDestroyed
  \/ arg.err \in {AbortError, PrematureClose, ConnectionReset}

\* C26: a termination of the relay caused by the client (abort, premature
\* close, connection reset) is not treated as an error: no error log entry, no
\* JSON error response, and nothing but the cancellation cleanup.
C26_ClientTerminationSilent ==
  (ret.done /\ ClientTermination) => ret.effects = {}

\* the pipeline callback has received a connection reset with no flag set
C26_Witness ==
  /\ ret.done /\ arg.stage = "pipeline" /\ arg.err = ConnectionReset
  /\ ~arg.aborted /\ ~arg.reqAborted /\ ~arg.resDestroyed
  /\ ret.effects = {}

\* the number of entries the two caches of the build hold
CacheSizes ==
  IF variant = "map"
  THEN [streamUrls |-> Cardinality(DOMAIN streamUrlCache),
        videoInfo |-> Cardinality(DOMAIN videoInfoCache)]
  ELSE [streamUrls |-> Len(lruStreamUrlCache), videoInfo |-> Len(lruVideoInfoCache)]

\* C27: POST /api/cache/clear empties the stream-URL cache and the metadata
\* cache and reports in cleared.streamUrls and cleared.videoInfo the sizes
\* the two caches had immediately before the clear.
C27_ClearReportsPriorSizes ==
  [][\A e \in sent' : e.kind = "POST_clear" =>
        /\ e.status = 200
        /\ e.cleared = CacheSizes
        /\ CacheSizes' = [streamUrls |-> 0, videoInfo |-> 0]]_vars

\* a clear has just reported one stream URL and one metadata entry
C27_Witness ==
  \E e \in sent :
    /\ e.kind = "POST_clear"
    /\ e.cleared = [streamUrls |-> 1, videoInfo |-> 1]
    /\ CacheSizes = [streamUrls |-> 0, videoInfo |-> 0]

\* C28: GET /api/search answers a JSON array of at most 10 items for every
\* query and every limit parameter (absent, zero, negative, non-numeric,
\* larger than 10), and an empty array without calling the search
\* collaborator when q is empty after trimming.
C28_AtMostTenItems ==
  ret.done =>
    /\ Len(ret.response.items) <= 10
    /\ trim(arg.query.q) = "" => ~ret.response.called /\ ret.response.items = <<>>

\* request r is past its resolution: it awaits the upstream response or
\* relays the upstream body
Relaying(r) == req[r].pc \in {"awaitFetch", "streaming"}

\* C29: a failure while relaying (upstream fetch error, upstream error
\* status, pipeline error, client abort) changes neither the stream-URL
\* cache nor the metadata cache nor the pending maps, and no other request:
\* every step a relaying request takes leaves them as they were.
C29_RelayFailureIsLocal ==
  [][\A r \in Reqs :
       (Relaying(r) /\ req'[r] # req[r])
         => /\ UNCHANGED <<mapVars, lruVars>>
            /\ \A q \in Reqs \ {r} : req'[q] = req[q]]_vars

\* the upstream fetch of a relay has just failed; its identifier is still
\* cached and another request is in progress
C29_Witness ==
  \E e \in sent :
    /\ e.kind = "GET_stream" /\ ~e.result.set /\ e.status = 500 /\ e.body = "json"
    /\ StreamCached(e.videoId)
    /\ \E q \in Reqs : q # e.r /\ req[q].pc # "idle"

\* the resolutions the last step has settled with a value: one event of the
\* leader per promise
Resolved(kinds) ==
  {e \in sent : e.kind \in kinds /\ e.result.set /\ e.result.ok /\ e.promise = e.r}

\* C30: in part_000 a cached resolution is never mutated: a put is executed
\* only when the cache holds no entry for the identifier, the url (or info)
\* and timestamp of an entry stay the same from its insertion until its
\* removal, and each successful resolution performs exactly one put, the
\* leader's.
C30_EntriesImmutable ==
  [][/\ \A id \in DOMAIN streamUrlCache \cap DOMAIN streamUrlCache' :
          streamUrlCache'[id] = streamUrlCache[id]
     /\ \A id \in DOMAIN videoInfoCache \cap DOMAIN videoInfoCache' :
          videoInfoCache'[id] = videoInfoCache[id]
     /\ \A id \in DOMAIN streamUrlCache' \ DOMAIN streamUrlCache :
          \E e \in Resolved(StreamKinds)' :
            /\ e.videoId = id
            /\ streamUrlCache'[id] = [url |-> e.result.url, timestamp |-> now]
     /\ \A id \in DOMAIN videoInfoCache' \ DOMAIN videoInfoCache :
          \E e \in Resolved(InfoKinds)' :
            /\ e.videoId = id
            /\ videoInfoCache'[id] = [info |-> e.result.info, timestamp |-> now]
     /\ \A e \in Resolved(StreamKinds)' : e.videoId \notin DOMAIN streamUrlCache
     /\ \A e \in Resolved(InfoKinds)' : e.videoId \notin DOMAIN videoInfoCache]_vars

\* a stream URL has just been put two clock units after the start, when an
\* earlier entry for the identifier has had the time to expire
C30_Witness ==
  \E e \in Resolved(StreamKinds) :
    /\ now >= 2
    /\ streamUrlCache[e.videoId] = [url |-> e.result.url, timestamp |-> now]
    /\ \E e2 \in sent : e2.r # e.r /\ e2.promise = e.promise

\* the entries of a cache whose age exceeds the TTL
Expired(cache, ttl) == {id \in DOMAIN cache : now - cache[id].timestamp > ttl}

\* what a cleanup does to one cache
Swept(before, after, ttl) ==
  /\ DOMAIN after = DOMAIN before \ Expired(before, ttl)
  /\ \A id \in DOMAIN after : after[id] = before[id]

\* C31: the periodic cleanup of part_000 removes from each cache exactly the
\* entries with now - timestamp > TTL of that cache and leaves every other
\* entry and both pending maps unchanged; immediately after a sweep no cache
\* contains an expired entry.
C31_SweepRemovesExpired ==
  [][Sweep =>
       /\ Swept(streamUrlCache, streamUrlCache', STREAM_CACHE_TTL_MS)
       /\ Swept(videoInfoCache, videoInfoCache', INFO_CACHE_TTL_MS)
       /\ UNCHANGED <<pendingStreamRequests, pendingInfoRequests>>
       /\ Expired(streamUrlCache, STREAM_CACHE_TTL_MS)' = {}
       /\ Expired(videoInfoCache, INFO_CACHE_TTL_MS)' = {}]_vars

\* a cleanup has just removed one metadata entry and kept a stream URL whose
\* age equals the TTL, while a relay is in progress
C31_Witness ==
  /\ \E e \in sent : e.kind = "cleanup" /\ e.cleaned = [streams |-> 0, info |-> 1]
  /\ "idA" \in DOMAIN streamUrlCache
  /\ now - streamUrlCache["idA"].timestamp = STREAM_CACHE_TTL_MS
  /\ \E r \in Reqs : req[r].pc = "awaitFetch"

\* C32: for an input that is not itself an identifier, normalizeVideoId
\* returns the v query parameter when it is present and valid; otherwise the
\* last non-empty path segment when that is an identifier and the first
\* segment is not "watch"; with first segment "watch" and no valid v the
\* result is invalid even if the last segment is an identifier; an input that
\* does not parse as a URL is invalid.
C32_UrlForms ==
  ret.done =>
    \A id \in VideoIdSamples :
      /\ \A post \in {"", "#t"} :
           /\ arg \in {pre \o id \o post :
                         pre \in {"https://y/watch?v=", "https://y/watch?t=10&v=",
                                  "https://y/embed/abcdefghijk?v=",
                                  "https://y/watch/abcdefghijk?v="}}
                => ret.first = VideoId(id)
           /\ arg \in {"https://y/embed/abcdefghijk?v=" \o bad \o post :
                         bad \in {"dQw4w9WgXc", "dQw4w9WgXc!"}}
                => ret.first = VideoId("abcdefghijk")
           /\ arg \in {"https://y/watch/abcdefghijk?v=" \o bad \o post :
                         bad \in {"dQw4w9WgXc", "dQw4w9WgXc!"}}
                => ~ret.first.valid
      /\ \A post \in {"", "?t=10", "#t", "/"} :
           /\ arg \in {pre \o id \o post :
                         pre \in {"https://y/embed/", "https://youtu.be/", "https://y/a/b/"}}
                => ret.first = VideoId(id)
           /\ arg = "https://y/watch/" \o id \o post => ~ret.first.valid
           /\ arg = "y/watch?v=" \o id \o post => ~ret.first.valid
           /\ arg = "https://y/a?v=dQw4w9WgXc&v=" \o id \o post => ~ret.first.valid

\* the path of a watch URL ends in an identifier, its v parameter is not
\* one: the result is invalid
C32_Witness ==
  /\ ret.done
  /\ arg = "https://y/watch/abcdefghijk?v=dQw4w9WgXc"
  /\ ~ret.first.valid

\* the identifiers the yt-dlp build holds state for: those of the calls in
\* progress, the keys of the stream cache and of the pending map
LruHeldIds ==
  {req[r].videoId : r \in {q \in Reqs : req[q].pc # "idle"}}
  \cup {lruStreamUrlCache[i].key : i \in 1..Len(lruStreamUrlCache)}
  \cup pendingRequests

\* C33: every identifier used as a key of a cache or of a pending map, or
\* passed to the extraction collaborator, is a value returned by
\* normalizeVideoId and matches the 11-character pattern, for every entry
\* point: requests, the warm-ups of HEAD, of the search endpoint and of the
\* popular-videos timer.
C33_KeysAreNormalized ==
  \A id \in LruHeldIds : matchesId(id) /\ normalizeVideoId(id) = VideoId(id)

\* C34: in the stream handler that uses parseRangeHeader, for every Range
\* value and every total size >= 1, a 206 response has
\* 0 <= start <= end <= totalSize - 1, Content-Range "bytes start-end/totalSize"
\* and Content-Length end - start + 1; when the header is malformed, starts at
\* or beyond the size or ends before its start, the full resource is served
\* without 206 and with Content-Length totalSize.
C34_RangeWithinResource ==
  ret.done =>
    LET response == ret.response
        start == response.range.start
        end == response.range.end
    IN /\ response.status = 206 =>
            /\ 0 <= start /\ start <= end /\ end <= arg.totalSize - 1
            /\ response.contentRange =
                 "bytes " \o ToString(start) \o "-" \o ToString(end) \o "/"
                   \o ToString(arg.totalSize)
            /\ response.contentLength = ToString(end - start + 1)
       /\ response.status # 206 =>
            /\ response.status = 200
            /\ response.contentRange = ""
            /\ response.contentLength = ToString(arg.totalSize)
       /\ (arg.range = "bytes=100-199" /\ arg.totalSize = 1000) =>
            /\ response.status = 206
            /\ response.contentRange = "bytes 100-199/1000"
            /\ response.contentLength = "100"
       /\ (arg.range = "bytes=2-100" /\ arg.totalSize = 5) =>
            response.contentRange = "bytes 2-4/5"
       /\ arg.range \in {"bytes=-5", "bytes=a-b", "bytes=1-2,4-5", "items=0-1", "bytes= 0-1",
                         "bytes=1", "bytes=5-2"}
            => response.status = 200
       /\ (arg.range = "bytes=7-" /\ arg.totalSize <= 7) => response.status = 200

\* a range that ends beyond the resource has been clamped to its last byte
C34_Witness ==
  /\ ret.done /\ arg.range = "bytes=2-100" /\ arg.totalSize = 5
  /\ ret.response.status = 206 /\ ret.response.range = [set |-> TRUE, start |-> 2, end |-> 4]
  /\ ret.response.contentLength = "3"

\* the cache of a namespace
CacheOf(kinds) == IF kinds = StreamKinds THEN streamUrlCache ELSE videoInfoCache

\* C35: POST /api/cache/clear leaves pendingStreamRequests and
\* pendingInfoRequests unchanged and cancels nothing: a resolution in flight
\* at the clear stays in flight, and when it completes it delivers its result
\* to all its waiters and inserts it into the cache; no request starts a
\* second extraction for an identifier that has one in flight.
C35_ClearKeepsInFlight ==
  /\ [](\A videoId \in Ids, kinds \in Namespaces :
          Cardinality(InFlight(kinds, videoId)) <= 1)
  /\ [][/\ (\E e \in sent' : e.kind = "POST_clear")
            => UNCHANGED <<pendingStreamRequests, pendingInfoRequests, req>>
        /\ \A kinds \in Namespaces : \A e \in Resolved(kinds)' :
             /\ e.videoId \in DOMAIN CacheOf(kinds)'
             /\ \A q \in Suspended(kinds, e.videoId) :
                  \E e2 \in sent' : e2.r = q /\ e2.result = e.result]_vars

\* a clear has just emptied a cache that held a stream URL while a leader and
\* a waiter are suspended on the extraction of another identifier
C35_Witness ==
  /\ \E e \in sent : e.kind = "POST_clear" /\ e.cleared.streamUrls = 1
  /\ \E videoId \in Ids :
       /\ videoId \in DOMAIN pendingStreamRequests
       /\ Cardinality(Suspended(StreamKinds, videoId)) = 2

\* C36: in the LRU-cache build, a JSON error response of GET /api/stream
\* (resolution failure or proxy failure) carries none of the headers the
\* handler sets ahead of the resolution: neither Cache-Control "public,
\* max-age=7200" nor Accept-Ranges "bytes".
C36_ErrorWithoutOptimisticHeaders ==
  \A e \in sent :
    (variant = "lru" /\ e.kind = "GET_stream" /\ e.body = "json") =>
      /\ e.headers["cache-control"] # OptimisticHeaders["cache-control"]
      /\ e.headers["accept-ranges"] # OptimisticHeaders["accept-ranges"]

\* C37: in the player, currentSongIndex is 0 when the playlist is empty and
\* otherwise 0 <= currentSongIndex < playlist.length, after any sequence of
\* the handlers and of completions of background info fetches.
C37_IndexWithinPlaylist ==
  arg = "App" =>
    IF Len(ret.playlist) = 0
    THEN ret.currentSongIndex = 0
    ELSE ret.currentSongIndex \in 0..(Len(ret.playlist) - 1)

\* the songs addToQueueFromResult appended
QueuedIds(playlist) ==
  {playlist[i].videoId : i \in {j \in 1..Len(playlist) : DOMAIN playlist[j] = {"videoId"}}}

\* C38: a song added with addToQueueFromResult stays in the playlist until
\* removeAtIndex, clearQueue or a later playNowFromResult removes it: the
\* completion of the background info fetch of an earlier playNowFromResult
\* takes no queued song out of the playlist and does not replace the
\* playlist of a later playNowFromResult.
C38_QueuedSongsStay ==
  [][\A videoId \in Ids, ok \in BOOLEAN :
       InfoSettled(videoId, ok) =>
          /\ QueuedIds(ret.playlist) \subseteq SongIds(ret.playlist')
          /\ SongIds(ret.playlist) \subseteq {videoId} \cup SongIds(ret.playlist')]_vars

\* C39: the controller of every prefetch that is in flight and not aborted is
\* the one abortControllers holds under its video.
C39_InFlightIsAbortable ==
  arg = "App" =>
    \A c \in Controllers :
      (ret.controllers[c].inFlight /\ ~ret.controllers[c].aborted) =>
        /\ ret.controllers[c].videoId \in DOMAIN ret.abortControllers
        /\ ret.abortControllers[ret.controllers[c].videoId] = c

\* C40: once every overlapping play(src) of InstantAudioPlayer has had its
\* canplay event, in whatever order, the element in this.audio has the source
\* of the most recent play call (this.currentSrc); and at no time are two
\* audio elements playing.
C40_LatestSourcePlays ==
  arg = "InstantAudioPlayer" =>
    /\ Cardinality({e \in DOMAIN ret.elements : ~ret.elements[e].paused}) <= 1
    /\ (/\ ret.currentSrc # Null
        /\ \A e \in DOMAIN ret.elements : ret.elements[e].load \in {"none", "canplay"})
       => ret.elements[ret.audio].src = ret.currentSrc

====
